---- MODULE Spec2Model ----
(***************************************************************************)
(* The media-refresh and prefetch engines of the UBOB digital-signage      *)
(* client, as state machines.                                              *)
(*                                                                         *)
(*   carousel : ImageComponent          src/components/ImageComponent.tsx  *)
(*   marquee  : OutletDisplayComponent                                     *)
(*              src/Digital-Signage-System/app/screens/MediaScreen.tsx     *)
(*   legacy   : the earlier ImageComponent kept in MediaScreen.tsx         *)
(*   outlet   : the marquee of components/OutletImageComponent.tsx         *)
(*   heartbeat: the heartbeat effect of MediaScreen                        *)
(*   url      : two calls of getImageUrl                                   *)
(*                                                                         *)
(* React is modelled at the level its documentation gives: the state       *)
(* updates of one handler (event handler, timer callback, promise          *)
(* continuation, animation callback) are committed together, and the       *)
(* commit runs the cleanups and then the bodies of the effects whose       *)
(* dependencies changed, in the order of their declaration.  One action    *)
(* of the model is one handler together with the commit it causes.         *)
(*                                                                         *)
(* Animated is modelled at the level of its API: an animation runs until   *)
(* it completes (callback with finished = true), is stopped by             *)
(* stopAnimation, or is replaced by another animation on the same value    *)
(* (callback with finished = false).                                       *)
(*                                                                         *)
(* A ref that holds the id of a cleared or fired timer, or a controller    *)
(* whose request has settled, is represented by 0: clearTimeout,           *)
(* clearInterval and abort are no-ops on such a ref, exactly as they are   *)
(* skipped for a null ref.                                                 *)
(*                                                                         *)
(* The endpoint prop is not kept: the server's answer does not depend on   *)
(* it in the model, so a change of the prop is only the re-creation of     *)
(* fetchMediaList it causes.                                               *)
(*                                                                         *)
(* The engines share no state; a behaviour follows one engine instance,    *)
(* chosen in Init, from before its mount to after its unmount.             *)
(*                                                                         *)
(* Time is counted in ticks of TimeUnit (LegacyTimeUnit for the earlier    *)
(* carousel), units that divide the program's durations.  A timer or an    *)
(* animation that is due runs before the clock moves on; two that are due  *)
(* at the same tick run in either order.                                   *)
(*                                                                         *)
(* lastSettle is a history variable: it records how the fetch that         *)
(* settled last ended and is read by no action.                            *)
(***************************************************************************)
EXTENDS Integers, Sequences, FiniteSets, TLC

(***************************************************************************)
(* Bounds of the model.                                                    *)
(***************************************************************************)
\* longest media list the server returns
MaxLen == 3
\* requests of one engine that may be unsettled at the same time
MaxInFlight == 2
\* milliseconds per clock tick
TimeUnit == 200
\* milliseconds per clock tick of the earlier carousel
LegacyTimeUnit == 500
\* milliseconds per clock tick of the heartbeat
HbTimeUnit == 2500
\* clock ticks the heartbeat is followed for
MaxHbTicks == 9
\* latest reading of the clock (Date.now()) at a call of getImageUrl
MaxNow == 2
\* the longest list of images the login form preloads
MaxPreload == 2
\* the most runs of the preload effect of one preloader
MaxRuns == 2
\* the most heartbeats of the validated media screen that are followed
MaxSent == 3

Min(a, b) == IF a < b THEN a ELSE b

(***************************************************************************)
(* Program constants of the carousel.                                      *)
(***************************************************************************)
DISPLAY_DURATION == 5000
FADE_DURATION == 400
PREFETCH_BUFFER == 2

(***************************************************************************)
(* Program constants of the marquee; WindowWidth is the width that         *)
(* useWindowDimensions reports.                                            *)
(***************************************************************************)
MARQUEE_PREFETCH_BUFFER == 5
WindowWidth == 1000
\* Math.min(220, Math.round(width * 0.22))
ITEM_W == Min(220, ((WindowWidth * 22) + 50) \div 100)

(***************************************************************************)
(* Program constants of the earlier carousel (the ImageComponent of        *)
(* MediaScreen.tsx).                                                       *)
(***************************************************************************)
LEGACY_FADE_DURATION == 500
LEGACY_DISPLAY_DURATION == 6000
LegacyTicks(ms) == (ms + LegacyTimeUnit - 1) \div LegacyTimeUnit
LegacyFadeTicks == LegacyTicks(LEGACY_FADE_DURATION)
legacyTotalInterval == LEGACY_DISPLAY_DURATION + LEGACY_FADE_DURATION * 2

(***************************************************************************)
(* The layout of one item of the marquee strip: OutletImageStyle and the   *)
(* inline styles of the render.  The fractions of the width are taken      *)
(* down to whole points.                                                   *)
(***************************************************************************)
Max(a, b) == IF a > b THEN a ELSE b
\* Math.min(90, width * 0.2)
imageSize == Min(90, (WindowWidth * 20) \div 100)
\* the outlet name: width: Math.min(85, width * 0.15)
labelWidth == Min(85, (WindowWidth * 15) \div 100)
\* the item's View takes the width of its widest child: the imageWrapper
\* with its marginHorizontal: 8, or the label
tileWidth == Max(imageSize + 2 * 8, labelWidth)
\* from one item to the next: the View and its marginHorizontal: 8
itemPitch == tileWidth + 2 * 8

(***************************************************************************)
(* Program constant of the heartbeat of MediaScreen: the delay given to    *)
(* setInterval.                                                            *)
(***************************************************************************)
heartbeatInterval == 10000
HbTicks(ms) == (ms + HbTimeUnit - 1) \div HbTimeUnit

\* a duration in clock ticks
Ticks(ms) == (ms + TimeUnit - 1) \div TimeUnit
\* opacity is counted in steps of 1/FadeTicks: FadeTicks is opacity 1
FadeTicks == Ticks(FADE_DURATION)
totalInterval == DISPLAY_DURATION + FADE_DURATION * 2


(***************************************************************************)
(* Strings are sequences of characters.  The empty sequence stands for an  *)
(* absent path (null, undefined and "" are all falsy) and for the null     *)
(* result of getImageUrl.                                                  *)
(***************************************************************************)
SERVER_URL == <<"h","t","t","p","s",":","/","/","u","b","o","b">>
NoPath == <<>>
RelPath == <<"/","a">>
AbsPath == <<"h","t","t","p",":","/","/","b">>

\* further values of the image field: an absolute https URL, an embedded
\* image (a data: URL), and a relative path that begins with the letters http
HttpsPath == <<"h","t","t","p","s",":","/","/","b">>
DataPath == <<"d","a","t","a",":","x">>
HttpDirPath == <<"h","t","t","p","d","/","a">>
ImagePaths == {NoPath, RelPath, AbsPath, HttpsPath, DataPath, HttpDirPath}

startsWith(s, p) == Len(s) >= Len(p) /\ SubSeq(s, 1, Len(p)) = p

\* getImageUrl with the test of bustCache left out of each branch
getImageUrlBusting(path, bustCache, now) ==
  IF path = NoPath THEN NoPath
  ELSE IF startsWith(path, <<"h","t","t","p">>)
       THEN path \o <<"?","t","=">> \o <<ToString(now)>>
       ELSE SERVER_URL \o path \o <<"?","t","=">> \o <<ToString(now)>>

getImageUrl(path, bustCache, now) ==
  IF path = NoPath THEN NoPath
  ELSE IF startsWith(path, <<"h","t","t","p">>)
       THEN IF bustCache THEN path \o <<"?","t","=">> \o <<ToString(now)>> ELSE path
       ELSE IF bustCache
            THEN SERVER_URL \o path \o <<"?","t","=">> \o <<ToString(now)>>
            ELSE SERVER_URL \o path

(***************************************************************************)
(* Data: a MediaItem is its image reference (name, description and the     *)
(* dates are display-only).  The server's lists are the lists of length    *)
(* 0..MaxLen that run through the three kinds of reference (relative,      *)
(* absolute, absent), in two rotations, so that two lists of the same      *)
(* length differ in every item.                                            *)
(***************************************************************************)
MediaPaths == <<RelPath, AbsPath, NoPath>>
Feed(n, k) == [i \in 1..n |-> [image |-> MediaPaths[((i + k - 2) % 3) + 1]]]
MediaLists == {Feed(n, k) : n \in 0..MaxLen, k \in 1..2}
Urls == {getImageUrl(MediaPaths[i], FALSE, 0) : i \in 1..3} \ {NoPath}

\* a feed of more outlets than the marquee's PREFETCH_BUFFER: the first and
\* the last outlet have an image
LongFeed ==
  [i \in 1..(MARQUEE_PREFETCH_BUFFER + 1) |->
     [image |-> IF i = 1 THEN RelPath
                ELSE IF i <= MARQUEE_PREFETCH_BUFFER THEN NoPath ELSE AbsPath]]

\* the marquee's lists: the same, lists whose items all have one image, and
\* the long feed
OutletLists ==
  MediaLists \cup {[i \in 1..n |-> [image |-> RelPath]] : n \in 1..MaxLen}
             \cup {LongFeed}

(***************************************************************************)
(* What the server may answer to one request: a transport failure, or a    *)
(* response with a status (ok or not) and a body that parses or not; a     *)
(* parsed body has a media field or not.                                   *)
(***************************************************************************)
Rejected ==
  [kind |-> "neterr", ok |-> FALSE, parses |-> FALSE, hasMedia |-> FALSE, media |-> <<>>]
Outcomes(lists) ==
  {Rejected}
  \cup {[kind |-> "resp", ok |-> o, parses |-> FALSE, hasMedia |-> FALSE, media |-> <<>>]
          : o \in BOOLEAN}
  \cup {[kind |-> "resp", ok |-> o, parses |-> TRUE, hasMedia |-> FALSE, media |-> <<>>]
          : o \in BOOLEAN}
  \cup {[kind |-> "resp", ok |-> o, parses |-> TRUE, hasMedia |-> TRUE, media |-> L]
          : o \in BOOLEAN, L \in lists}

\* data.media || []
MediaOf(o) == IF o.hasMedia THEN o.media ELSE <<>>

VARIABLES
  engine,             \* the engine instance this behaviour follows
  lastSettle,         \* history: how the fetch that settled last ended
  \* ---- carousel (ImageComponent)
  lifecycle,          \* "init", "mounted", "unmounted": the component in the tree
  mediaList, currentIndex, loading, errorVisible,   \* useState
  fadeAnim,           \* the Animated.Value and the animation running on it
  timers,             \* the pending setTimeout / setInterval timers
  intervalRef, timeoutRef, isMounted, abortControllerRef,   \* useRef
  inflight,           \* the fetches that have not settled
  prefetched,         \* Image.prefetch calls per URL since the list was replaced
  \* ---- marquee (OutletDisplayComponent)
  mqLifecycle,        \* "init", "mounted", "unmounted"
  images, mqLoading,  \* useState
  scrollX,            \* the Animated.Value and the animation running on it
  mqIsMounted, mqAbortControllerRef, prefetchCache,   \* useRef
  mqInflight,         \* the fetches that have not settled
  mqPrefetched,       \* Image.prefetch calls per URL since the list was replaced
  imageErrors,        \* useState: the identities of the items whose image failed
  \* ---- the earlier carousel (ImageComponent of MediaScreen.tsx)
  lgLifecycle,        \* "init", "mounted", "unmounted"
  lgMediaList, lgCurrentIndex, lgLoading, lgErrorVisible,   \* useState
  lgFadeAnim,         \* the Animated.Value and the animation running on it
  lgTimers,           \* the pending setTimeout / setInterval timers
  lgIntervalRef,      \* useRef
  lgFirstTimeout,     \* the firstTimeout the effect's cleanup holds
  lgInflight,         \* the fetches that have not settled
  \* ---- the marquee of components/OutletImageComponent.tsx
  oiLifecycle,        \* "init", "mounted", "unmounted"
  oiImages, oiLoading,   \* useState
  oiScrollX,          \* the Animated.Value and the animation running on it
  oiIsMounted,        \* useRef
  oiInflight,         \* the fetches that have not settled
  oiEscaped,          \* a promise of fetchOutletImages was rejected (nothing handles it)
  \* ---- the heartbeat of MediaScreen (app/screens/MediaScreen.tsx)
  hbLifecycle,        \* "init", "mounted", "unmounted"
  hbInterval,         \* the timer of setInterval(sendHeartbeat, 10000)
  hbSent,             \* heartbeats sent: calls of fetch by sendHeartbeat
  hbUnsettled,        \* heartbeats whose fetch has not settled
  hbNow,              \* clock ticks since the screen was mounted
  \* ---- two calls of getImageUrl with the same arguments
  urlPath, urlBustCache,   \* the arguments
  urlNow,             \* Date.now()
  urlCalls,           \* the values the calls returned, in order
  \* ---- the login form (OutletLoginForm) and its ImagePreloader
  lf,                 \* the state, the refs and the pending work of the two
  \* ---- the media screen that validates its device (MediaScreen)
  dv,
  \* ---- the system login form (SystemLoginForm)
  sf

carVars == <<lifecycle, mediaList, currentIndex, loading, errorVisible,
             fadeAnim, timers, intervalRef, timeoutRef, isMounted,
             abortControllerRef, inflight, prefetched>>
mqVars == <<mqLifecycle, images, mqLoading, scrollX, mqIsMounted,
            mqAbortControllerRef, prefetchCache, mqInflight, mqPrefetched,
            imageErrors>>
lgVars == <<lgLifecycle, lgMediaList, lgCurrentIndex, lgLoading, lgErrorVisible,
            lgFadeAnim, lgTimers, lgIntervalRef, lgFirstTimeout, lgInflight>>
oiVars == <<oiLifecycle, oiImages, oiLoading, oiScrollX, oiIsMounted, oiInflight,
            oiEscaped>>
hbVars == <<hbLifecycle, hbInterval, hbSent, hbUnsettled, hbNow>>
urlVars == <<urlPath, urlBustCache, urlNow, urlCalls>>
formVars == <<lf, dv, sf>>
vars == <<engine, lastSettle, carVars, mqVars, lgVars, oiVars, hbVars, urlVars,
          formVars>>

NoAnim == [value |-> FadeTicks, running |-> FALSE, toValue |-> FadeTicks, left |-> 0,
           onEnd |-> "none", nextIndex |-> 0]

\* the carousel's state as one record
Car ==
  [lifecycle |-> lifecycle, mediaList |-> mediaList,
   currentIndex |-> currentIndex, loading |-> loading, errorVisible |-> errorVisible,
   fadeAnim |-> fadeAnim, timers |-> timers, intervalRef |-> intervalRef,
   timeoutRef |-> timeoutRef, isMounted |-> isMounted,
   abortControllerRef |-> abortControllerRef, inflight |-> inflight,
   prefetched |-> prefetched]

CarInit ==
  [lifecycle |-> "init", mediaList |-> <<>>, currentIndex |-> 0,
   loading |-> TRUE, errorVisible |-> FALSE, fadeAnim |-> NoAnim, timers |-> {},
   intervalRef |-> 0, timeoutRef |-> 0, isMounted |-> TRUE, abortControllerRef |-> 0,
   inflight |-> {}, prefetched |-> [u \in Urls |-> "never"]]

IsCar(c) ==
  /\ lifecycle = c.lifecycle
  /\ mediaList = c.mediaList
  /\ currentIndex = c.currentIndex
  /\ loading = c.loading
  /\ errorVisible = c.errorVisible
  /\ fadeAnim = c.fadeAnim
  /\ timers = c.timers
  /\ intervalRef = c.intervalRef
  /\ timeoutRef = c.timeoutRef
  /\ isMounted = c.isMounted
  /\ abortControllerRef = c.abortControllerRef
  /\ inflight = c.inflight
  /\ prefetched = c.prefetched

SetCar(c) ==
  /\ lifecycle' = c.lifecycle
  /\ mediaList' = c.mediaList
  /\ currentIndex' = c.currentIndex
  /\ loading' = c.loading
  /\ errorVisible' = c.errorVisible
  /\ fadeAnim' = c.fadeAnim
  /\ timers' = c.timers
  /\ intervalRef' = c.intervalRef
  /\ timeoutRef' = c.timeoutRef
  /\ isMounted' = c.isMounted
  /\ abortControllerRef' = c.abortControllerRef
  /\ inflight' = c.inflight
  /\ prefetched' = c.prefetched

(***************************************************************************)
(* Timers (setTimeout, setInterval, clearTimeout, clearInterval).  A timer *)
(* carries the advanceOnce closure it was created with: the mediaList and  *)
(* the currentIndex of the render that made it.                            *)
(***************************************************************************)
FreshTimerId(c) ==
  CHOOSE i \in 1..(Cardinality(c.timers) + 1) :
    /\ \A t \in c.timers : t.id # i
    /\ \A j \in 1..(i - 1) : \E t \in c.timers : t.id = j

clearTimer(c, id) ==
  [c EXCEPT !.timers = {t \in @ : t.id # id},
            !.timeoutRef = IF @ = id THEN 0 ELSE @,
            !.intervalRef = IF @ = id THEN 0 ELSE @]

\* if (intervalRef.current) clearInterval(...); if (timeoutRef.current) clearTimeout(...)
ClearTimers(c) ==
  LET c1 == IF c.intervalRef # 0 THEN clearTimer(c, c.intervalRef) ELSE c
  IN IF c1.timeoutRef # 0 THEN clearTimer(c1, c1.timeoutRef) ELSE c1

(***************************************************************************)
(* fetch with an AbortController.                                          *)
(***************************************************************************)
FreshRequestId(c) ==
  CHOOSE i \in 1..(Cardinality(c.inflight) + 1) :
    /\ \A r \in c.inflight : r.id # i
    /\ \A j \in 1..(i - 1) : \E r \in c.inflight : r.id = j

AbortNothing(c) == c

\* if (abortControllerRef.current) abortControllerRef.current.abort()
AbortCurrent(c) ==
  IF c.abortControllerRef = 0 THEN c
  ELSE [c EXCEPT !.inflight =
          {IF r.id = c.abortControllerRef THEN [r EXCEPT !.aborted = TRUE] ELSE r : r \in @}]

\* fetchMediaList up to its first await; closureLen is the mediaList.length
\* the callback was created with, which its catch only compares with 0
fetchMediaList(c, closureLen) ==
  LET c1 == AbortCurrent(c)
      id == FreshRequestId(c1)
  IN [c1 EXCEPT !.abortControllerRef = id,
                !.inflight = @ \cup {[id |-> id, closureEmpty |-> (closureLen = 0),
                                      aborted |-> FALSE]}]

\* the condition under which the catch of fetchMediaList shows the error
ShowsErrorAlways(c, r) == c.isMounted

ShowsError(c, r) == c.isMounted /\ r.closureEmpty

\* fetchMediaList from the point where the awaited fetch settles with outcome
\* o for request r.  replaced: setMediaList was called.
FetchMediaListResume(c, r, o) ==
  LET c0 == [c EXCEPT !.inflight = @ \ {r},
                      !.abortControllerRef = IF @ = r.id THEN 0 ELSE @]
      finally(x) == IF x.isMounted THEN [x EXCEPT !.loading = FALSE] ELSE x
      items == MediaOf(o)
  IN IF r.aborted
     THEN \* AbortError: the catch returns, the finally still runs
          [c |-> finally(c0), replaced |-> FALSE, how |-> "aborted"]
     ELSE IF o.kind = "neterr" \/ ~o.parses
     THEN [c |-> finally(
                  [c0 EXCEPT !.errorVisible =
                               IF ShowsError(c0, r) THEN TRUE ELSE @]),
           replaced |-> FALSE, how |-> "failed"]
     ELSE IF c0.isMounted
     THEN \* an empty items is logged ("Error: No media found") and applied
          [c |-> finally([c0 EXCEPT !.mediaList = items,
                                    !.errorVisible = FALSE,
                                    !.currentIndex = 0,
                                    !.prefetched = [u \in Urls |-> "never"]]),
           replaced |-> TRUE, how |-> "applied"]
     ELSE [c |-> finally(c0), replaced |-> FALSE, how |-> "dropped"]

(***************************************************************************)
(* Image.prefetch and prefetchImages.                                      *)
(***************************************************************************)
\* per URL: "never" issued since the list was replaced, issued "once", or
\* issued "again"
ImagePrefetch(c, url) ==
  [c EXCEPT !.prefetched[url] = IF @ = "never" THEN "once" ELSE "again"]

RECURSIVE PrefetchLoop(_, _, _, _, _)
PrefetchLoop(c, list, startIndex, count, i) ==
  IF i >= count THEN c
  ELSE LET index == (startIndex + 1) % Len(list)
           url == getImageUrl(list[index + 1].image, FALSE, 0)
       IN PrefetchLoop(IF url # NoPath THEN ImagePrefetch(c, url) ELSE c,
                       list, startIndex, count, i + 1)

prefetchImages(c, list, startIndex, count) ==
  IF Len(list) = 0 THEN c ELSE PrefetchLoop(c, list, startIndex, count, 0)

(***************************************************************************)
(* Animated.timing on fadeAnim.                                            *)
(***************************************************************************)
SetAnimation(c, toValue, onEnd, nextIndex) ==
  [c EXCEPT !.fadeAnim = [value |-> c.fadeAnim.value, running |-> TRUE,
                          toValue |-> toValue, left |-> FadeTicks,
                          onEnd |-> onEnd, nextIndex |-> nextIndex]]

EndAnimation(c) ==
  [c EXCEPT !.fadeAnim = [NoAnim EXCEPT !.value = c.fadeAnim.value,
                                        !.toValue = c.fadeAnim.value]]

\* a callback that swaps the item and starts no fade-in
FadeOutCallbackSwapOnly(c, nextIndex) ==
  IF ~c.isMounted THEN c ELSE [c EXCEPT !.currentIndex = nextIndex]

\* the callback advanceOnce passes to the fade-out's start(); it does not
\* look at finished
FadeOutCallback(c, nextIndex) ==
  IF ~c.isMounted THEN c
  ELSE SetAnimation([c EXCEPT !.currentIndex = nextIndex], FadeTicks, "none", 0)

\* Animated.timing(fadeAnim, {toValue, duration: FADE_DURATION}).start(cb):
\* an animation still running on the value is stopped first and its
\* callback is called with finished = false
AnimatedTimingStart(c, toValue, onEnd, nextIndex) ==
  LET old == c.fadeAnim
      c1 == IF old.running
            THEN IF old.onEnd = "swap"
                 THEN FadeOutCallback(EndAnimation(c), old.nextIndex)
                 ELSE EndAnimation(c)
            ELSE c
  IN SetAnimation(c1, toValue, onEnd, nextIndex)

\* advanceOnce with a nextIndex that passes over one item
advanceOnceSkipping(c, adv) ==
  IF Len(adv.mediaList) <= 1 THEN c
  ELSE LET nextIndex == (adv.currentIndex + 2) % Len(adv.mediaList)
       IN AnimatedTimingStart(
            prefetchImages(c, adv.mediaList, nextIndex, PREFETCH_BUFFER),
            0, "swap", nextIndex)

advanceOnce(c, adv) ==
  IF Len(adv.mediaList) <= 1 THEN c
  ELSE LET nextIndex == (adv.currentIndex + 1) % Len(adv.mediaList)
       IN AnimatedTimingStart(
            prefetchImages(c, adv.mediaList, nextIndex, PREFETCH_BUFFER),
            0, "swap", nextIndex)

(***************************************************************************)
(* The effects of ImageComponent and the commit of a render.               *)
(***************************************************************************)
\* useEffect [mediaList, prefetchImages]: initial prefetch
PrefetchEffect(c) ==
  IF Len(c.mediaList) = 0 THEN c
  ELSE prefetchImages(c, c.mediaList, 0, Min(PREFETCH_BUFFER + 1, Len(c.mediaList)))

\* useEffect [fetchMediaList]: body and cleanup
MountEffect(c) ==
  fetchMediaList([c EXCEPT !.isMounted = TRUE], Len(c.mediaList))

MountCleanup(c) == AbortCurrent([c EXCEPT !.isMounted = FALSE])

\* useEffect [mediaList.length, advanceOnce]: body and cleanup
CyclingEffect(c) ==
  IF Len(c.mediaList) = 0 THEN c
  ELSE LET c1 == ClearTimers(c)
           id == FreshTimerId(c1)
       IN [c1 EXCEPT !.timers = @ \cup {[id |-> id, kind |-> "timeout",
                                         left |-> Ticks(DISPLAY_DURATION),
                                         adv |-> [mediaList |-> c.mediaList,
                                                  currentIndex |-> c.currentIndex]]},
                     !.timeoutRef = id]

CyclingCleanup(c) == ClearTimers(c)

\* prev: the state of the last commit; cur: the state the handler left;
\* replaced: the handler called setMediaList (a new array); newEndpoint: the
\* render has another endpoint prop
Commit(prev, cur, replaced, newEndpoint) ==
  IF cur.lifecycle # "mounted" THEN cur
  ELSE LET lenChanged == Len(cur.mediaList) # Len(prev.mediaList)
           fetchChanged == lenChanged \/ newEndpoint
           advChanged == replaced \/ lenChanged \/ cur.currentIndex # prev.currentIndex
           c1 == IF fetchChanged THEN MountCleanup(cur) ELSE cur
           c2 == IF advChanged /\ Len(prev.mediaList) > 0 THEN CyclingCleanup(c1) ELSE c1
           c3 == IF replaced THEN PrefetchEffect(c2) ELSE c2
           c4 == IF fetchChanged THEN MountEffect(c3) ELSE c3
       IN IF advChanged THEN CyclingEffect(c4) ELSE c4

\* what ImageComponent renders
currentMediaDefined == currentIndex < Len(mediaList)
RetryVisible == lifecycle = "mounted" /\ ~currentMediaDefined /\ errorVisible

(***************************************************************************)
(* Actions of the carousel.                                                *)
(***************************************************************************)
CarMount ==
  /\ engine = "carousel" /\ lifecycle = "init"
  /\ SetCar(CyclingEffect(MountEffect(PrefetchEffect([Car EXCEPT !.lifecycle = "mounted"]))))
  /\ UNCHANGED <<engine, formVars, lastSettle, mqVars, lgVars, oiVars, hbVars, urlVars>>

CarUnmount ==
  /\ engine = "carousel" /\ lifecycle = "mounted"
  /\ LET c1 == MountCleanup(Car)
         c2 == IF Len(mediaList) > 0 THEN CyclingCleanup(c1) ELSE c1
     IN SetCar([c2 EXCEPT !.lifecycle = "unmounted"])
  /\ UNCHANGED <<engine, formVars, lastSettle, mqVars, lgVars, oiVars, hbVars, urlVars>>

\* the parent renders the component with another endpoint prop
CarSetEndpoint ==
  /\ engine = "carousel" /\ lifecycle = "mounted"
  /\ Cardinality(inflight) < MaxInFlight
  /\ SetCar(Commit(Car, Car, FALSE, TRUE))
  /\ UNCHANGED <<engine, formVars, lastSettle, mqVars, lgVars, oiVars, hbVars, urlVars>>

\* the awaited fetch of one request settles
CarFetchSettle ==
  /\ engine = "carousel"
  /\ \E r \in inflight :
       \E o \in IF r.aborted THEN {Rejected} ELSE Outcomes(MediaLists) :
         LET res == FetchMediaListResume(Car, r, o)
         IN SetCar(Commit(Car, res.c, res.replaced, FALSE)) /\ lastSettle' = res.how
  /\ UNCHANGED <<engine, formVars, mqVars, lgVars, oiVars, hbVars, urlVars>>

\* onRetry of the error overlay
CarRetry ==
  /\ engine = "carousel" /\ RetryVisible
  /\ Cardinality(inflight) < MaxInFlight
  /\ SetCar(Commit(Car, fetchMediaList([Car EXCEPT !.errorVisible = FALSE,
                                                   !.loading = TRUE],
                                       Len(mediaList)), FALSE, FALSE))
  /\ UNCHANGED <<engine, formVars, lastSettle, mqVars, lgVars, oiVars, hbVars, urlVars>>

\* the setTimeout callback of the cycling effect
CarTimeout ==
  /\ engine = "carousel"
  /\ \E t \in timers :
       /\ t.kind = "timeout" /\ t.left = 0
       /\ LET c1 == advanceOnce(clearTimer(Car, t.id), t.adv)
              id == FreshTimerId(c1)
              c2 == [c1 EXCEPT !.timers = @ \cup {[id |-> id, kind |-> "interval",
                                                   left |-> Ticks(totalInterval),
                                                   adv |-> t.adv]},
                               !.intervalRef = id]
          IN SetCar(Commit(Car, c2, FALSE, FALSE))
  /\ UNCHANGED <<engine, formVars, lastSettle, mqVars, lgVars, oiVars, hbVars, urlVars>>

\* setInterval(advanceOnce, totalInterval)
CarInterval ==
  /\ engine = "carousel"
  /\ \E t \in timers :
       /\ t.kind = "interval" /\ t.left = 0
       /\ LET c1 == [Car EXCEPT !.timers = (@ \ {t})
                                    \cup {[t EXCEPT !.left = Ticks(totalInterval)]}]
          IN SetCar(Commit(Car, advanceOnce(c1, t.adv), FALSE, FALSE))
  /\ UNCHANGED <<engine, formVars, lastSettle, mqVars, lgVars, oiVars, hbVars, urlVars>>

\* the animation on fadeAnim reaches its toValue: callback with finished = true
CarFadeEnd ==
  /\ engine = "carousel"
  /\ fadeAnim.running /\ fadeAnim.left = 0
  /\ LET c1 == EndAnimation(Car)
         c2 == IF fadeAnim.onEnd = "swap" THEN FadeOutCallback(c1, fadeAnim.nextIndex)
               ELSE c1
     IN SetCar(Commit(Car, c2, FALSE, FALSE))
  /\ UNCHANGED <<engine, formVars, lastSettle, mqVars, lgVars, oiVars, hbVars, urlVars>>

\* one TimeUnit passes: nothing that is due has been left waiting (a due
\* timer, a finished animation, the rejection of an aborted fetch)
CarTick ==
  /\ engine = "carousel"
  /\ timers # {} \/ fadeAnim.running
  /\ \A r \in inflight : ~r.aborted
  /\ \A t \in timers : t.left > 0
  /\ fadeAnim.running => fadeAnim.left > 0
  /\ timers' = {[t EXCEPT !.left = @ - 1] : t \in timers}
  /\ fadeAnim' = IF fadeAnim.running
                 THEN [fadeAnim EXCEPT
                         !.left = @ - 1,
                         !.value = IF fadeAnim.left = 1 THEN fadeAnim.toValue
                                   ELSE @ + ((fadeAnim.toValue - @) \div fadeAnim.left)]
                 ELSE fadeAnim
  /\ UNCHANGED <<lifecycle, mediaList, currentIndex, loading, errorVisible,
                 intervalRef, timeoutRef, isMounted, abortControllerRef, inflight,
                 prefetched>>
  /\ UNCHANGED <<engine, formVars, lastSettle, mqVars, lgVars, oiVars, hbVars, urlVars>>

CarNext ==
  \/ CarMount \/ CarUnmount \/ CarSetEndpoint \/ CarFetchSettle \/ CarRetry
  \/ CarTimeout \/ CarInterval \/ CarFadeEnd \/ CarTick

(***************************************************************************)
(* The marquee: OutletDisplayComponent.                                    *)
(***************************************************************************)
NoScroll == [value |-> 0, running |-> FALSE, toValue |-> 0, closure |-> <<>>]

Mq ==
  [lifecycle |-> mqLifecycle, images |-> images, loading |-> mqLoading,
   scrollX |-> scrollX, isMounted |-> mqIsMounted,
   abortControllerRef |-> mqAbortControllerRef, prefetchCache |-> prefetchCache,
   inflight |-> mqInflight, prefetched |-> mqPrefetched, imageErrors |-> imageErrors]

MqInit ==
  [lifecycle |-> "init", images |-> <<>>, loading |-> TRUE, scrollX |-> NoScroll,
   isMounted |-> TRUE, abortControllerRef |-> 0, prefetchCache |-> {},
   inflight |-> {}, prefetched |-> [u \in Urls |-> "never"], imageErrors |-> {}]

IsMq(c) ==
  /\ mqLifecycle = c.lifecycle
  /\ images = c.images
  /\ mqLoading = c.loading
  /\ scrollX = c.scrollX
  /\ mqIsMounted = c.isMounted
  /\ mqAbortControllerRef = c.abortControllerRef
  /\ prefetchCache = c.prefetchCache
  /\ mqInflight = c.inflight
  /\ mqPrefetched = c.prefetched
  /\ imageErrors = c.imageErrors

SetMq(c) ==
  /\ mqLifecycle' = c.lifecycle
  /\ images' = c.images
  /\ mqLoading' = c.loading
  /\ scrollX' = c.scrollX
  /\ mqIsMounted' = c.isMounted
  /\ mqAbortControllerRef' = c.abortControllerRef
  /\ prefetchCache' = c.prefetchCache
  /\ mqInflight' = c.inflight
  /\ mqPrefetched' = c.prefetched
  /\ imageErrors' = c.imageErrors

\* the loop of smartPrefetchForMarquee: urlsToPrefetch and prefetchCache
RECURSIVE MarqueeLoop(_, _, _, _)
MarqueeLoop(c, list, urlsToPrefetch, i) ==
  IF i >= Min(MARQUEE_PREFETCH_BUFFER, Len(list))
  THEN [c |-> c, urlsToPrefetch |-> urlsToPrefetch]
  ELSE LET url == getImageUrl(list[i + 1].image, FALSE, 0)
       IN IF url # NoPath /\ url \notin c.prefetchCache
          THEN MarqueeLoop([c EXCEPT !.prefetchCache = @ \cup {url}], list,
                           Append(urlsToPrefetch, url), i + 1)
          ELSE MarqueeLoop(c, list, urlsToPrefetch, i + 1)

RECURSIVE PrefetchAll(_, _)
PrefetchAll(c, urls) ==
  IF urls = <<>> THEN c ELSE PrefetchAll(ImagePrefetch(c, Head(urls)), Tail(urls))

\* list: the images the callback was created with
smartPrefetchForMarquee(c, list) ==
  IF Len(list) = 0 THEN c
  ELSE LET r == MarqueeLoop(c, list, <<>>, 0)
       IN PrefetchAll(r.c, r.urlsToPrefetch)

\* fetchOutletImages up to its first await
fetchOutletImages(c, closureLen) ==
  LET c1 == AbortCurrent(c)
      id == FreshRequestId(c1)
  IN [c1 EXCEPT !.abortControllerRef = id,
                !.loading = TRUE,
                !.inflight = @ \cup {[id |-> id, closureEmpty |-> (closureLen = 0),
                                      aborted |-> FALSE]}]

\* fetchOutletImages from the point where the awaited fetch settles
FetchOutletImagesResume(c, r, o) ==
  LET c0 == [c EXCEPT !.inflight = @ \ {r},
                      !.abortControllerRef = IF @ = r.id THEN 0 ELSE @]
      finally(x) == IF x.isMounted THEN [x EXCEPT !.loading = FALSE] ELSE x
      items == MediaOf(o)
  IN IF r.aborted
     THEN [c |-> finally(c0), replaced |-> FALSE, how |-> "aborted"]
     ELSE IF o.kind = "neterr" \/ ~o.ok \/ ~o.parses \/ Len(items) = 0
     THEN \* a rejected fetch, throw new Error(`HTTP ...`), a rejected json(),
          \* throw new Error("No Images found"):
          \* all caught and logged ("Image Fetch Error:")
          [c |-> finally(c0), replaced |-> FALSE, how |-> "failed"]
     ELSE IF c0.isMounted
     THEN [c |-> finally([c0 EXCEPT !.images = items,
                                    !.imageErrors = {},
                                    !.prefetchCache = {},
                                    !.prefetched = [u \in Urls |-> "never"]]),
           replaced |-> TRUE, how |-> "applied"]
     ELSE [c |-> finally(c0), replaced |-> FALSE, how |-> "dropped"]

\* scrollX.stopAnimation(): the callback of animate() sees finished = false
\* and does nothing
StopScroll(c) == [c EXCEPT !.scrollX = [NoScroll EXCEPT !.value = c.scrollX.value]]

\* animate(): Animated.timing(scrollX, {toValue: -originalWidth, duration})
Animate(c, originalWidth, list) ==
  [c EXCEPT !.scrollX = [value |-> c.scrollX.value, running |-> TRUE,
                         toValue |-> 0 - originalWidth, closure |-> list]]

\* useEffect [images, smartPrefetchForMarquee]
MqPrefetchEffect(c) ==
  IF Len(c.images) > 0 THEN smartPrefetchForMarquee(c, c.images) ELSE c

\* useEffect [fetchOutletImages]: body and cleanup
MqMountEffect(c) ==
  fetchOutletImages([c EXCEPT !.isMounted = TRUE], Len(c.images))

MqMountCleanup(c) == AbortCurrent(StopScroll([c EXCEPT !.isMounted = FALSE]))

\* useEffect [images.length, ITEM_W, width, smartPrefetchForMarquee]: body
\* (startInfiniteScroll) and cleanup
MarqueeEffect(c) ==
  IF Len(c.images) = 0 THEN c
  ELSE LET itemWidth == ITEM_W + 8
           originalWidth == Len(c.images) * itemWidth
           c1 == [StopScroll(c) EXCEPT !.scrollX.value = 0]
       IN Animate(c1, originalWidth, c.images)

MarqueeCleanup(c) == StopScroll(c)

\* a commit whose marquee effect runs for the first list only
MqCommitScrollOnce(prev, cur, replaced, newEndpoint) ==
  IF cur.lifecycle # "mounted" THEN cur
  ELSE LET lenChanged == Len(cur.images) # Len(prev.images)
           fetchChanged == lenChanged \/ newEndpoint
           c1 == IF fetchChanged THEN MqMountCleanup(cur) ELSE cur
           c3 == IF replaced THEN MqPrefetchEffect(c1) ELSE c1
           c4 == IF fetchChanged THEN MqMountEffect(c3) ELSE c3
       IN IF replaced /\ Len(prev.images) = 0 THEN MarqueeEffect(c4) ELSE c4

MqCommit(prev, cur, replaced, newEndpoint) ==
  IF cur.lifecycle # "mounted" THEN cur
  ELSE LET lenChanged == Len(cur.images) # Len(prev.images)
           fetchChanged == lenChanged \/ newEndpoint
           c1 == IF fetchChanged THEN MqMountCleanup(cur) ELSE cur
           c2 == IF replaced /\ Len(prev.images) > 0 THEN MarqueeCleanup(c1) ELSE c1
           c3 == IF replaced THEN MqPrefetchEffect(c2) ELSE c2
           c4 == IF fetchChanged THEN MqMountEffect(c3) ELSE c3
       IN IF replaced THEN MarqueeEffect(c4) ELSE c4

(***************************************************************************)
(* Actions of the marquee.                                                 *)
(***************************************************************************)
MqMount ==
  /\ engine = "marquee" /\ mqLifecycle = "init"
  /\ SetMq(MarqueeEffect(MqMountEffect(MqPrefetchEffect(
            [Mq EXCEPT !.lifecycle = "mounted"]))))
  /\ UNCHANGED <<engine, formVars, lastSettle, carVars, lgVars, oiVars, hbVars, urlVars>>

MqUnmount ==
  /\ engine = "marquee" /\ mqLifecycle = "mounted"
  /\ LET c1 == MqMountCleanup(Mq)
         c2 == IF Len(images) > 0 THEN MarqueeCleanup(c1) ELSE c1
     IN SetMq([c2 EXCEPT !.lifecycle = "unmounted"])
  /\ UNCHANGED <<engine, formVars, lastSettle, carVars, lgVars, oiVars, hbVars, urlVars>>

\* the parent renders the component with another endpoint prop
MqSetEndpoint ==
  /\ engine = "marquee" /\ mqLifecycle = "mounted"
  /\ Cardinality(mqInflight) < MaxInFlight
  /\ SetMq(MqCommit(Mq, Mq, FALSE, TRUE))
  /\ UNCHANGED <<engine, formVars, lastSettle, carVars, lgVars, oiVars, hbVars, urlVars>>

\* the awaited fetch of one request settles
MqFetchSettle ==
  /\ engine = "marquee"
  /\ \E r \in mqInflight :
       \E o \in IF r.aborted THEN {Rejected} ELSE Outcomes(OutletLists) :
         LET res == FetchOutletImagesResume(Mq, r, o)
         IN SetMq(MqCommit(Mq, res.c, res.replaced, FALSE)) /\ lastSettle' = res.how
  /\ UNCHANGED <<engine, formVars, carVars, lgVars, oiVars, hbVars, urlVars>>

\* the strip scrolls on by the width of one item
MqScroll ==
  /\ engine = "marquee"
  /\ scrollX.running /\ scrollX.value > scrollX.toValue
  /\ scrollX' = [scrollX EXCEPT !.value = @ - (ITEM_W + 8)]
  /\ UNCHANGED <<mqLifecycle, images, mqLoading, mqIsMounted, mqAbortControllerRef,
                 prefetchCache, mqInflight, mqPrefetched, imageErrors>>
  /\ UNCHANGED <<engine, formVars, lastSettle, carVars, lgVars, oiVars, hbVars, urlVars>>

\* the scroll animation reaches -originalWidth: callback with finished = true
MqScrollEnd ==
  /\ engine = "marquee"
  /\ scrollX.running /\ scrollX.value = scrollX.toValue
  /\ LET c1 == StopScroll(Mq)
         c2 == IF c1.isMounted
               THEN Animate(smartPrefetchForMarquee([c1 EXCEPT !.scrollX.value = 0],
                                                    scrollX.closure),
                            0 - scrollX.toValue, scrollX.closure)
               ELSE c1
     IN SetMq(MqCommit(Mq, c2, FALSE, FALSE))
  /\ UNCHANGED <<engine, formVars, lastSettle, carVars, lgVars, oiVars, hbVars, urlVars>>

\* the render guards of the marquee: the loading text, the empty text or
\* the strip
MqRenders(c) ==
  IF c.loading THEN "loading" ELSE IF Len(c.images) = 0 THEN "empty" ELSE "strip"

\* imageId of an item: item.id || item.outlet_id; the items of the outlet
\* feed are told apart by their outlet, here the position in the feed
imageId(list, i) == i

\* the render: the <Image> element of item i of the list is in the tree
\* (not loading, a non-empty list, uri && !hasError)
ImageRendered(c, i) ==
  /\ c.lifecycle = "mounted" /\ ~c.loading
  /\ i \in 1..Len(c.images)
  /\ getImageUrl(c.images[i].image, FALSE, 0) # NoPath
  /\ imageId(c.images, i) \notin c.imageErrors

\* handleImageError(imageId)
handleImageError(c, id) == [c EXCEPT !.imageErrors = @ \cup {id}]

\* the onLoadStart handler of an <Image>: imageErrors is the set of the
\* render that created the handler
onLoadStart(c, id) ==
  IF id \in c.imageErrors THEN [c EXCEPT !.imageErrors = @ \ {id}] ELSE c

\* an <Image> in the tree reports a load error
MqImageError ==
  /\ engine = "marquee"
  /\ \E i \in 1..Len(images) :
       /\ ImageRendered(Mq, i)
       /\ SetMq(MqCommit(Mq, handleImageError(Mq, imageId(images, i)), FALSE, FALSE))
  /\ UNCHANGED <<engine, formVars, lastSettle, carVars, lgVars, oiVars, hbVars, urlVars>>

\* an <Image> in the tree reports that a load starts
MqImageLoadStart ==
  /\ engine = "marquee"
  /\ \E i \in 1..Len(images) :
       /\ ImageRendered(Mq, i)
       /\ SetMq(MqCommit(Mq, onLoadStart(Mq, imageId(images, i)), FALSE, FALSE))
  /\ UNCHANGED <<engine, formVars, lastSettle, carVars, lgVars, oiVars, hbVars, urlVars>>

MqNext ==
  \/ MqMount \/ MqUnmount \/ MqSetEndpoint \/ MqFetchSettle \/ MqScroll \/ MqScrollEnd
  \/ MqImageError \/ MqImageLoadStart

(***************************************************************************)
(* The earlier carousel: the ImageComponent of MediaScreen.tsx.  It has    *)
(* no isMounted flag and no AbortController; React drops the state         *)
(* updates of a component that is no longer mounted.                       *)
(***************************************************************************)
LgNoAnim == [value |-> LegacyFadeTicks, running |-> FALSE, toValue |-> LegacyFadeTicks,
             left |-> 0, onEnd |-> "none", len |-> 0]

Lg ==
  [lifecycle |-> lgLifecycle, mediaList |-> lgMediaList,
   currentIndex |-> lgCurrentIndex, loading |-> lgLoading,
   errorVisible |-> lgErrorVisible, fadeAnim |-> lgFadeAnim, timers |-> lgTimers,
   intervalRef |-> lgIntervalRef, firstTimeout |-> lgFirstTimeout,
   inflight |-> lgInflight]

LgInit ==
  [lifecycle |-> "init", mediaList |-> <<>>, currentIndex |-> 0, loading |-> TRUE,
   errorVisible |-> FALSE, fadeAnim |-> LgNoAnim, timers |-> {}, intervalRef |-> 0,
   firstTimeout |-> 0, inflight |-> {}]

IsLg(c) ==
  /\ lgLifecycle = c.lifecycle
  /\ lgMediaList = c.mediaList
  /\ lgCurrentIndex = c.currentIndex
  /\ lgLoading = c.loading
  /\ lgErrorVisible = c.errorVisible
  /\ lgFadeAnim = c.fadeAnim
  /\ lgTimers = c.timers
  /\ lgIntervalRef = c.intervalRef
  /\ lgFirstTimeout = c.firstTimeout
  /\ lgInflight = c.inflight

SetLg(c) ==
  /\ lgLifecycle' = c.lifecycle
  /\ lgMediaList' = c.mediaList
  /\ lgCurrentIndex' = c.currentIndex
  /\ lgLoading' = c.loading
  /\ lgErrorVisible' = c.errorVisible
  /\ lgFadeAnim' = c.fadeAnim
  /\ lgTimers' = c.timers
  /\ lgIntervalRef' = c.intervalRef
  /\ lgFirstTimeout' = c.firstTimeout
  /\ lgInflight' = c.inflight

\* a state update of the component: dropped once it is unmounted
LgSetState(c, upd) == IF c.lifecycle = "mounted" THEN upd ELSE c

LgClearTimer(c, id) ==
  [c EXCEPT !.timers = {t \in @ : t.id # id},
            !.firstTimeout = IF @ = id THEN 0 ELSE @,
            !.intervalRef = IF @ = id THEN 0 ELSE @]

\* fetchMediaList up to its await
LegacyFetchMediaList(c, closureLen) ==
  [c EXCEPT !.inflight = @ \cup {[id |-> FreshRequestId(c),
                                  closureEmpty |-> (closureLen = 0),
                                  aborted |-> FALSE]}]

\* fetchMediaList from the point where the awaited fetch settles
LegacyFetchMediaListResume(c, r, o) ==
  LET c0 == [c EXCEPT !.inflight = @ \ {r}]
      finally(x) == LgSetState(x, [x EXCEPT !.loading = FALSE])
      items == MediaOf(o)
  IN IF o.kind = "neterr" \/ ~o.ok \/ ~o.parses \/ Len(items) = 0
     THEN [c |-> finally(IF r.closureEmpty
                         THEN LgSetState(c0, [c0 EXCEPT !.errorVisible = TRUE])
                         ELSE c0),
           replaced |-> FALSE, how |-> "failed"]
     ELSE [c |-> finally(LgSetState(c0, [c0 EXCEPT !.mediaList = items,
                                                     !.errorVisible = FALSE])),
           replaced |-> c0.lifecycle = "mounted",
           how |-> IF c0.lifecycle = "mounted" THEN "applied" ELSE "dropped"]

LgSetAnimation(c, toValue, onEnd, len) ==
  [c EXCEPT !.fadeAnim = [value |-> c.fadeAnim.value, running |-> TRUE,
                          toValue |-> toValue, left |-> LegacyFadeTicks,
                          onEnd |-> onEnd, len |-> len]]

LgEndAnimation(c) ==
  [c EXCEPT !.fadeAnim = [LgNoAnim EXCEPT !.value = c.fadeAnim.value,
                                          !.toValue = c.fadeAnim.value]]

\* the callback of the fade-out: setCurrentIndex(prev => (prev + 1) % length)
\* and the fade-in
LegacyFadeOutCallback(c, len) ==
  LgSetAnimation(LgSetState(c, [c EXCEPT !.currentIndex = (@ + 1) % len]),
                 LegacyFadeTicks, "none", 0)

\* an animation still running on fadeAnim is stopped: its callback is called
LgStopRunning(c) ==
  IF ~c.fadeAnim.running THEN c
  ELSE IF c.fadeAnim.onEnd = "swap"
       THEN LegacyFadeOutCallback(LgEndAnimation(c), c.fadeAnim.len)
       ELSE LgEndAnimation(c)

LegacyAdvanceOnce(c, len) ==
  IF len <= 1 THEN c
  ELSE LgSetAnimation(LgStopRunning(c), 0, "swap", len)

\* useEffect [mediaList]: body and cleanup
LegacyCarouselEffect(c) ==
  LET c1 == IF c.intervalRef # 0 THEN LgClearTimer(c, c.intervalRef) ELSE c
  IN IF Len(c1.mediaList) = 0 THEN c1
     ELSE LET c2 == [LgStopRunning(c1) EXCEPT !.fadeAnim.value = LegacyFadeTicks]
              c3 == [c2 EXCEPT !.timers = @ \cup {[id |-> 1, kind |-> "interval",
                                                   left |-> LegacyTicks(legacyTotalInterval),
                                                   len |-> Len(c.mediaList)]},
                               !.intervalRef = 1]
          IN [c3 EXCEPT !.timers = @ \cup {[id |-> 2, kind |-> "timeout",
                                            left |-> LegacyTicks(LEGACY_DISPLAY_DURATION),
                                            len |-> Len(c.mediaList)]},
                        !.firstTimeout = 2]

LegacyCarouselCleanup(c) ==
  LET c1 == IF c.intervalRef # 0 THEN LgClearTimer(c, c.intervalRef) ELSE c
  IN IF c1.firstTimeout # 0 THEN LgClearTimer(c1, c1.firstTimeout) ELSE c1

LgCommit(prev, cur, replaced) ==
  IF cur.lifecycle # "mounted" \/ ~replaced THEN cur
  ELSE LegacyCarouselEffect(IF Len(prev.mediaList) > 0 THEN LegacyCarouselCleanup(cur)
                            ELSE cur)

LgRetryVisible ==
  lgLifecycle = "mounted" /\ ~(lgCurrentIndex < Len(lgMediaList)) /\ lgErrorVisible

(***************************************************************************)
(* Actions of the earlier carousel.                                        *)
(***************************************************************************)
LgMount ==
  /\ engine = "legacy" /\ lgLifecycle = "init"
  /\ SetLg(LegacyFetchMediaList(
             LegacyCarouselEffect([Lg EXCEPT !.lifecycle = "mounted"]), 0))
  /\ UNCHANGED <<engine, formVars, lastSettle, carVars, mqVars, oiVars, hbVars, urlVars>>

LgUnmount ==
  /\ engine = "legacy" /\ lgLifecycle = "mounted"
  /\ SetLg([(IF Len(lgMediaList) > 0 THEN LegacyCarouselCleanup(Lg) ELSE Lg)
              EXCEPT !.lifecycle = "unmounted"])
  /\ UNCHANGED <<engine, formVars, lastSettle, carVars, mqVars, oiVars, hbVars, urlVars>>

LgFetchSettle ==
  /\ engine = "legacy"
  /\ \E r \in lgInflight :
       \E o \in Outcomes(MediaLists) :
         LET res == LegacyFetchMediaListResume(Lg, r, o)
         IN SetLg(LgCommit(Lg, res.c, res.replaced)) /\ lastSettle' = res.how
  /\ UNCHANGED <<engine, formVars, carVars, mqVars, oiVars, hbVars, urlVars>>

\* onRetry of the error overlay
LgRetry ==
  /\ engine = "legacy" /\ LgRetryVisible
  /\ Cardinality(lgInflight) < MaxInFlight
  /\ SetLg(LegacyFetchMediaList([Lg EXCEPT !.errorVisible = FALSE, !.loading = TRUE],
                                Len(lgMediaList)))
  /\ UNCHANGED <<engine, formVars, lastSettle, carVars, mqVars, oiVars, hbVars, urlVars>>

\* firstTimeout fires
LgTimeout ==
  /\ engine = "legacy"
  /\ \E t \in lgTimers :
       /\ t.kind = "timeout" /\ t.left = 0
       /\ SetLg(LegacyAdvanceOnce(LgClearTimer(Lg, t.id), t.len))
  /\ UNCHANGED <<engine, formVars, lastSettle, carVars, mqVars, oiVars, hbVars, urlVars>>

\* the interval fires
LgInterval ==
  /\ engine = "legacy"
  /\ \E t \in lgTimers :
       /\ t.kind = "interval" /\ t.left = 0
       /\ SetLg(LegacyAdvanceOnce(
                  [Lg EXCEPT !.timers = (@ \ {t})
                               \cup {[t EXCEPT !.left = LegacyTicks(legacyTotalInterval)]}],
                  t.len))
  /\ UNCHANGED <<engine, formVars, lastSettle, carVars, mqVars, oiVars, hbVars, urlVars>>

\* the animation on fadeAnim reaches its toValue: callback with finished = true
LgFadeEnd ==
  /\ engine = "legacy"
  /\ lgFadeAnim.running /\ lgFadeAnim.left = 0
  /\ SetLg(IF lgFadeAnim.onEnd = "swap"
           THEN LegacyFadeOutCallback(LgEndAnimation(Lg), lgFadeAnim.len)
           ELSE LgEndAnimation(Lg))
  /\ UNCHANGED <<engine, formVars, lastSettle, carVars, mqVars, oiVars, hbVars, urlVars>>

\* one LegacyTimeUnit passes; nothing that is due has been left waiting
LgTick ==
  /\ engine = "legacy"
  /\ lgTimers # {} \/ lgFadeAnim.running
  /\ \A t \in lgTimers : t.left > 0
  /\ lgFadeAnim.running => lgFadeAnim.left > 0
  /\ lgTimers' = {[t EXCEPT !.left = @ - 1] : t \in lgTimers}
  /\ lgFadeAnim' = IF lgFadeAnim.running
                   THEN [lgFadeAnim EXCEPT
                           !.left = @ - 1,
                           !.value = IF lgFadeAnim.left = 1 THEN lgFadeAnim.toValue
                                     ELSE @ + ((lgFadeAnim.toValue - @) \div lgFadeAnim.left)]
                   ELSE lgFadeAnim
  /\ UNCHANGED <<lgLifecycle, lgMediaList, lgCurrentIndex, lgLoading, lgErrorVisible,
                 lgIntervalRef, lgFirstTimeout, lgInflight>>
  /\ UNCHANGED <<engine, formVars, lastSettle, carVars, mqVars, oiVars, hbVars, urlVars>>

LgNext ==
  \/ LgMount \/ LgUnmount \/ LgFetchSettle \/ LgRetry
  \/ LgTimeout \/ LgInterval \/ LgFadeEnd \/ LgTick

(***************************************************************************)
(* The marquee of components/OutletImageComponent.tsx, the component that  *)
(* the MediaScreen of the same tree imports.  No AbortController;          *)
(* fetchOutletImages is re-created only for a new endpoint, so that the    *)
(* images.length it reads is the one of the render that created it.        *)
(***************************************************************************)
Oi ==
  [lifecycle |-> oiLifecycle, images |-> oiImages, loading |-> oiLoading,
   scrollX |-> oiScrollX, isMounted |-> oiIsMounted, inflight |-> oiInflight,
   escaped |-> oiEscaped]

OiInit ==
  [lifecycle |-> "init", images |-> <<>>, loading |-> TRUE, scrollX |-> NoScroll,
   isMounted |-> TRUE, inflight |-> {}, escaped |-> FALSE]

IsOi(c) ==
  /\ oiLifecycle = c.lifecycle
  /\ oiImages = c.images
  /\ oiLoading = c.loading
  /\ oiScrollX = c.scrollX
  /\ oiIsMounted = c.isMounted
  /\ oiInflight = c.inflight
  /\ oiEscaped = c.escaped

SetOi(c) ==
  /\ oiLifecycle' = c.lifecycle
  /\ oiImages' = c.images
  /\ oiLoading' = c.loading
  /\ oiScrollX' = c.scrollX
  /\ oiIsMounted' = c.isMounted
  /\ oiInflight' = c.inflight
  /\ oiEscaped' = c.escaped

\* a state update of the component: dropped once it is unmounted
OiSetState(c, upd) == IF c.lifecycle = "mounted" THEN upd ELSE c

\* fetchOutletImages up to its await
OiFetchOutletImages(c, closureLen) ==
  LET c1 == OiSetState(c, [c EXCEPT !.loading = TRUE])
  IN [c1 EXCEPT !.inflight = @ \cup {[id |-> FreshRequestId(c1),
                                      closureEmpty |-> (closureLen = 0),
                                      aborted |-> FALSE]}]

\* fetchOutletImages from the point where the awaited fetch settles
OiFetchOutletImagesResume(c, r, o) ==
  LET c0 == [c EXCEPT !.inflight = @ \ {r}]
      finally(x) == IF x.isMounted THEN OiSetState(x, [x EXCEPT !.loading = FALSE])
                    ELSE x
      items == MediaOf(o)
  IN IF o.kind = "neterr" \/ ~o.ok \/ ~o.parses \/ Len(items) = 0
     THEN \* the catch: if (isMounted.current && images.length === 0)
          \* throw new Error("Error fetching Outlets.")
          [c |-> finally([c0 EXCEPT !.escaped = @ \/ (c0.isMounted /\ r.closureEmpty)]),
           replaced |-> FALSE, how |-> "failed"]
     ELSE IF c0.isMounted
     THEN [c |-> finally(OiSetState(c0, [c0 EXCEPT !.images = items])),
           replaced |-> c0.lifecycle = "mounted",
           how |-> IF c0.lifecycle = "mounted" THEN "applied" ELSE "dropped"]
     ELSE [c |-> c0, replaced |-> FALSE, how |-> "dropped"]

\* loopScroll(): scrollX.setValue(0) and Animated.timing to -totalWidth
OiLoopScroll(c, totalWidth, list) ==
  Animate([StopScroll(c) EXCEPT !.scrollX.value = 0], totalWidth, list)

\* useEffect [fetchOutletImages]: body and cleanup
OiFetchEffect(c) == OiFetchOutletImages(c, Len(c.images))

OiFetchCleanup(c) == StopScroll([c EXCEPT !.isMounted = FALSE])

\* useEffect [images, width]: body and cleanup
OiScrollEffect(c) ==
  IF Len(c.images) = 0 THEN c
  ELSE OiLoopScroll(c, Len(c.images) * (ITEM_W + 18), c.images)

OiScrollCleanup(c) == StopScroll(c)

OiCommit(prev, cur, replaced, newEndpoint) ==
  IF cur.lifecycle # "mounted" THEN cur
  ELSE LET c1 == IF newEndpoint THEN OiFetchCleanup(cur) ELSE cur
           c2 == IF replaced /\ Len(prev.images) > 0 THEN OiScrollCleanup(c1) ELSE c1
           c3 == IF newEndpoint THEN OiFetchEffect(c2) ELSE c2
       IN IF replaced THEN OiScrollEffect(c3) ELSE c3

(***************************************************************************)
(* Actions of the marquee of components/OutletImageComponent.tsx.          *)
(***************************************************************************)
OiMount ==
  /\ engine = "outlet" /\ oiLifecycle = "init"
  /\ SetOi(OiScrollEffect(OiFetchEffect([Oi EXCEPT !.lifecycle = "mounted"])))
  /\ UNCHANGED <<engine, formVars, lastSettle, carVars, mqVars, lgVars, hbVars, urlVars>>

OiUnmount ==
  /\ engine = "outlet" /\ oiLifecycle = "mounted"
  /\ LET c1 == OiFetchCleanup(Oi)
         c2 == IF Len(oiImages) > 0 THEN OiScrollCleanup(c1) ELSE c1
     IN SetOi([c2 EXCEPT !.lifecycle = "unmounted"])
  /\ UNCHANGED <<engine, formVars, lastSettle, carVars, mqVars, lgVars, hbVars, urlVars>>

\* the parent renders the component with another endpoint prop
OiSetEndpoint ==
  /\ engine = "outlet" /\ oiLifecycle = "mounted"
  /\ Cardinality(oiInflight) < MaxInFlight
  /\ SetOi(OiCommit(Oi, Oi, FALSE, TRUE))
  /\ UNCHANGED <<engine, formVars, lastSettle, carVars, mqVars, lgVars, hbVars, urlVars>>

\* the awaited fetch of one request settles
OiFetchSettle ==
  /\ engine = "outlet"
  /\ \E r \in oiInflight :
       \E o \in Outcomes(OutletLists) :
         LET res == OiFetchOutletImagesResume(Oi, r, o)
         IN SetOi(OiCommit(Oi, res.c, res.replaced, FALSE)) /\ lastSettle' = res.how
  /\ UNCHANGED <<engine, formVars, carVars, mqVars, lgVars, hbVars, urlVars>>

\* the strip scrolls on by the width of one item
OiScroll ==
  /\ engine = "outlet"
  /\ oiScrollX.running /\ oiScrollX.value > oiScrollX.toValue
  /\ oiScrollX' = [oiScrollX EXCEPT !.value = @ - (ITEM_W + 18)]
  /\ UNCHANGED <<oiLifecycle, oiImages, oiLoading, oiIsMounted, oiInflight, oiEscaped>>
  /\ UNCHANGED <<engine, formVars, lastSettle, carVars, mqVars, lgVars, hbVars, urlVars>>

\* the scroll animation reaches -totalWidth: if (finished) loopScroll()
OiScrollEnd ==
  /\ engine = "outlet"
  /\ oiScrollX.running /\ oiScrollX.value = oiScrollX.toValue
  /\ SetOi(OiLoopScroll(Oi, 0 - oiScrollX.toValue, oiScrollX.closure))
  /\ UNCHANGED <<engine, formVars, lastSettle, carVars, mqVars, lgVars, hbVars, urlVars>>

OiNext ==
  \/ OiMount \/ OiUnmount \/ OiSetEndpoint \/ OiFetchSettle \/ OiScroll \/ OiScrollEnd

(***************************************************************************)
(* The heartbeat of MediaScreen (app/screens/MediaScreen.tsx): one effect  *)
(* with no dependencies.  sendHeartbeat calls fetch at once; what comes    *)
(* back is only logged.                                                    *)
(***************************************************************************)
HbNoTimer == [armed |-> FALSE, left |-> 0, period |-> 0]

Hb ==
  [lifecycle |-> hbLifecycle, interval |-> hbInterval, sent |-> hbSent,
   unsettled |-> hbUnsettled]

HbInit == [lifecycle |-> "init", interval |-> HbNoTimer, sent |-> 0, unsettled |-> 0]

IsHb(c) ==
  /\ hbLifecycle = c.lifecycle
  /\ hbInterval = c.interval
  /\ hbSent = c.sent
  /\ hbUnsettled = c.unsettled

SetHb(c) ==
  /\ hbLifecycle' = c.lifecycle
  /\ hbInterval' = c.interval
  /\ hbSent' = c.sent
  /\ hbUnsettled' = c.unsettled

\* sendHeartbeat up to its await: the POST to /heartbeat is issued
sendHeartbeat(c) == [c EXCEPT !.sent = @ + 1, !.unsettled = @ + 1]

\* setInterval(callback, ms)
HbSetInterval(c, ms) ==
  [c EXCEPT !.interval = [armed |-> TRUE, left |-> HbTicks(ms), period |-> ms]]

\* the effect: setInterval(sendHeartbeat, 10000); sendHeartbeat()
HeartbeatEffect(c) == sendHeartbeat(HbSetInterval(c, heartbeatInterval))

HbKeepInterval(c) == c

\* the cleanup of the effect: clearInterval(interval)
HeartbeatCleanup(c) == [c EXCEPT !.interval = HbNoTimer]

(***************************************************************************)
(* Actions of the heartbeat.                                               *)
(***************************************************************************)
HbMount ==
  /\ engine = "heartbeat" /\ hbLifecycle = "init"
  /\ SetHb(HeartbeatEffect([Hb EXCEPT !.lifecycle = "mounted"]))
  /\ hbNow' = 0
  /\ UNCHANGED <<engine, formVars, lastSettle, carVars, mqVars, lgVars, oiVars, urlVars>>

HbUnmount ==
  /\ engine = "heartbeat" /\ hbLifecycle = "mounted"
  /\ SetHb([HeartbeatCleanup(Hb) EXCEPT !.lifecycle = "unmounted"])
  /\ UNCHANGED <<hbNow, engine, formVars, lastSettle, carVars, mqVars, lgVars, oiVars, urlVars>>

\* the interval timer is due: sendHeartbeat runs and the timer is armed again
HbIntervalFire ==
  /\ engine = "heartbeat"
  /\ hbInterval.armed /\ hbInterval.left = 0
  /\ SetHb(sendHeartbeat([Hb EXCEPT !.interval.left = HbTicks(hbInterval.period)]))
  /\ UNCHANGED <<hbNow, engine, formVars, lastSettle, carVars, mqVars, lgVars, oiVars, urlVars>>

\* the heartbeat failed: the fetch or response.json() rejected, or the
\* status is not ok (throw new Error(data.error || "Heartbeat Failed!"))
HbFailed(o) == o.kind = "neterr" \/ ~o.parses \/ ~o.ok

\* sendHeartbeat from its await, with a catch that sends again
HbResumeRetrying(c, o) ==
  IF HbFailed(o) THEN [c EXCEPT !.sent = @ + 1] ELSE [c EXCEPT !.unsettled = @ - 1]

\* sendHeartbeat from its await: a failure is caught and logged
\* (console.warn), a success leaves nothing
HbResume(c, o) == [c EXCEPT !.unsettled = @ - 1]

\* the fetch of one heartbeat settles
HbSettle ==
  /\ engine = "heartbeat"
  /\ hbUnsettled > 0
  /\ \E o \in {Rejected,
               [Rejected EXCEPT !.kind = "resp", !.parses = TRUE],
               [Rejected EXCEPT !.kind = "resp", !.ok = TRUE],
               [Rejected EXCEPT !.kind = "resp", !.ok = TRUE, !.parses = TRUE]} :
       /\ SetHb(HbResume(Hb, o))
       /\ lastSettle' = IF HbFailed(o) THEN "failed" ELSE "applied"
  /\ UNCHANGED <<hbNow, engine, formVars, carVars, mqVars, lgVars, oiVars, urlVars>>

\* the clock moves on by one tick; a due timer runs first
HbTick ==
  /\ engine = "heartbeat"
  /\ hbLifecycle # "init"
  /\ hbNow < MaxHbTicks
  /\ hbInterval.armed => hbInterval.left > 0
  /\ hbNow' = hbNow + 1
  /\ hbInterval' = IF hbInterval.armed THEN [hbInterval EXCEPT !.left = @ - 1]
                   ELSE hbInterval
  /\ UNCHANGED <<hbLifecycle, hbSent, hbUnsettled>>
  /\ UNCHANGED <<engine, formVars, lastSettle, carVars, mqVars, lgVars, oiVars, urlVars>>

HbNext == HbMount \/ HbUnmount \/ HbIntervalFire \/ HbSettle \/ HbTick

(***************************************************************************)
(* getImageUrl called twice with the same path and bustCache, at any two   *)
(* readings of the clock.                                                  *)
(***************************************************************************)
\* a render calls getImageUrl(path, bustCache)
UrlCall ==
  /\ engine = "url"
  /\ Len(urlCalls) < 2
  /\ urlCalls' = Append(urlCalls, getImageUrl(urlPath, urlBustCache, urlNow))
  /\ UNCHANGED <<urlPath, urlBustCache, urlNow>>
  /\ UNCHANGED <<engine, formVars, lastSettle, carVars, mqVars, lgVars, oiVars, hbVars>>

\* the clock moves on
UrlTick ==
  /\ engine = "url"
  /\ urlNow < MaxNow
  /\ urlNow' = urlNow + 1
  /\ UNCHANGED <<urlPath, urlBustCache, urlCalls>>
  /\ UNCHANGED <<engine, formVars, lastSettle, carVars, mqVars, lgVars, oiVars, hbVars>>

UrlNext == UrlCall \/ UrlTick

(***************************************************************************)
(* The login form (components/login_forms/OutletLoginForm.tsx) and the     *)
(* ImagePreloader it renders while status is "preloading_images".  The     *)
(* form imports components/image_components/ImagePreloader.tsx, which      *)
(* counts in processedCountRef ("ref"); components/ImagePreloader.tsx      *)
(* counts in a variable of the effect run ("local").  A behaviour follows  *)
(* one of the two.                                                         *)
(***************************************************************************)
\* what the user may have in the Outlet ID field
OutletIds == {<<>>, <<" ">>, <<"7">>, <<"8">>}

\* String.prototype.trim
RECURSIVE trim(_)
trim(s) ==
  IF s # <<>> /\ Head(s) = " " THEN trim(Tail(s))
  ELSE IF s # <<>> /\ s[Len(s)] = " " THEN trim(SubSeq(s, 1, Len(s) - 1))
  ELSE s

\* the answers to the validation request: a transport failure, a body that
\* does not parse, or a status and is_valid
LoginOutcomes ==
  {[kind |-> "neterr", ok |-> FALSE, parses |-> FALSE, is_valid |-> FALSE]}
  \cup {[kind |-> "resp", ok |-> o, parses |-> FALSE, is_valid |-> FALSE] : o \in BOOLEAN}
  \cup {[kind |-> "resp", ok |-> o, parses |-> TRUE, is_valid |-> v] : o, v \in BOOLEAN}

\* the lists /outlet_image_combined may return
PreloadLists == {Feed(n, k) : n \in 0..MaxPreload, k \in 1..2}

LfInit(variant) ==
  [lifecycle |-> "mounted", outletId |-> <<>>, loading |-> FALSE,
   errorVisible |-> FALSE, status |-> "undefined", outletData |-> FALSE,
   imagesToPreload |-> <<>>, preloadingProgress |-> 0,
   request |-> "none",      \* the await handleLogin is suspended at
   navTimers |-> 0,         \* pending setTimeout(() => router.replace(...))
   validated |-> FALSE,     \* history: this attempt's validation answered ok and is_valid
   navs |-> 0,              \* history: navigations scheduled by this attempt
   \* the preloader
   variant |-> variant, preMounted |-> FALSE, mountedRef |-> FALSE,
   processedCountRef |-> 0,
   runs |-> <<>>,           \* the runs of the preload effect: their unsettled prefetches
   failedImages |-> {},
   calls |-> 0,             \* history: calls of onAllImagesLoaded by this preloader
   processed |-> {}]        \* history: the items whose promise has completed

\* handleImagesPreloaded, the onAllImagesLoaded prop
handleImagesPreloaded(f) ==
  [f EXCEPT !.status = "success", !.navTimers = @ + 1, !.navs = @ + 1,
            !.calls = @ + 1]

\* one run of the preload effect: the map over the images up to each
\* item's await
PreloadEffect(f) ==
  LET n == Len(f.imagesToPreload)
      withUrl == {i \in 1..n : f.imagesToPreload[i].image # NoPath}
      skipped == (1..n) \ withUrl
      counted == IF f.variant = "ref" /\ f.mountedRef THEN Cardinality(skipped) ELSE 0
      cnt == f.processedCountRef + counted
      f1 == [f EXCEPT !.processedCountRef = cnt,
                      !.preloadingProgress = IF counted > 0 THEN cnt ELSE @,
                      !.runs = Append(@, [total |-> n, loadedCount |-> 0,
                                          pending |-> withUrl]),
                      !.processed = @ \cup skipped]
  IN IF n = 0 THEN handleImagesPreloaded(f)
     ELSE IF f.processedCountRef < n /\ n <= cnt THEN handleImagesPreloaded(f1)
     ELSE f1

\* the continuation of the prefetch of item i in run k, resolved or rejected
PrefetchSettled(f, k, i, resolved) ==
  LET f0 == [f EXCEPT !.runs[k].pending = @ \ {i}, !.processed = @ \cup {i}]
      cnt == IF f.variant = "ref" THEN f.processedCountRef + 1
             ELSE f.runs[k].loadedCount + 1
      f1 == [f0 EXCEPT !.processedCountRef = IF f.variant = "ref" THEN cnt ELSE @,
                       !.runs[k].loadedCount = IF f.variant = "local" THEN cnt ELSE @,
                       !.failedImages = IF resolved THEN @ ELSE @ \cup {i},
                       !.preloadingProgress = cnt]
  IN IF ~f.mountedRef THEN f0
     ELSE IF cnt = f.runs[k].total THEN handleImagesPreloaded(f1)
     ELSE f1

\* the render and the effects that follow a change of state: the preloader
\* is mounted while images are held and status is "preloading_images"; its
\* preload effect runs when it mounts and when handleImagesPreloaded
\* (deps [outletId, outletData]) is another function
LfCommit(prev, f) ==
  LET want(x) == /\ x.lifecycle = "mounted" /\ Len(x.imagesToPreload) > 0
                 /\ x.status = "preloading_images"
      f1 == IF want(f) /\ ~prev.preMounted
            THEN PreloadEffect([f EXCEPT !.preMounted = TRUE, !.mountedRef = TRUE,
                                         !.processedCountRef = 0, !.runs = <<>>,
                                         !.failedImages = {}, !.calls = 0,
                                         !.processed = {}])
            ELSE IF /\ want(f) /\ prev.preMounted
                    /\ (prev.outletId # f.outletId \/ prev.outletData # f.outletData)
            THEN PreloadEffect(f)
            ELSE f
  IN IF f1.preMounted /\ ~want(f1)
     THEN [f1 EXCEPT !.preMounted = FALSE, !.mountedRef = FALSE]
     ELSE f1

\* onChangeText={setOutletId}
LfType ==
  /\ engine = "login" /\ lf.lifecycle = "mounted"
  /\ lf.preMounted => Len(lf.runs) < MaxRuns
  /\ \E id \in OutletIds \ {lf.outletId} :
       lf' = LfCommit(lf, [lf EXCEPT !.outletId = id])
  /\ UNCHANGED <<engine, lastSettle, carVars, mqVars, lgVars, oiVars, hbVars, urlVars,
                 dv, sf>>

\* handleLogin up to its first await
LfPressLogin ==
  /\ engine = "login" /\ lf.lifecycle = "mounted"
  /\ lf' = IF lf.loading \/ trim(lf.outletId) = <<>> THEN lf
           ELSE LfCommit(lf, [lf EXCEPT !.loading = TRUE, !.status = "loading",
                                        !.request = "validate",
                                        !.validated = FALSE, !.navs = 0])
  /\ UNCHANGED <<engine, lastSettle, carVars, mqVars, lgVars, oiVars, hbVars, urlVars,
                 dv, sf>>

\* a test that takes every response with an ok status
AcceptsAnyOk(o) == o.ok

\* if (response.ok && data.is_valid)
Accepts(o) == o.ok /\ o.is_valid

\* handleLogin from the answer to the validation request to its next await
LfValidateSettle ==
  /\ engine = "login" /\ lf.request = "validate"
  /\ \E o \in LoginOutcomes :
       LET f == [lf EXCEPT !.validated = (o.kind = "resp" /\ o.ok /\ o.is_valid)]
       IN lf' = LfCommit(lf,
                  IF o.kind = "neterr" \/ ~o.parses
                  THEN \* catch (err): Alert.alert("Connection Error", ...)
                       [f EXCEPT !.request = "none"]
                  ELSE IF Accepts(o)
                  THEN [f EXCEPT !.outletData = TRUE, !.status = "fetching_promotions",
                                 !.request = "images"]
                  ELSE [f EXCEPT !.status = "error", !.errorVisible = TRUE,
                                 !.request = "none"])
  /\ UNCHANGED <<engine, lastSettle, carVars, mqVars, lgVars, oiVars, hbVars, urlVars,
                 dv, sf>>

\* handleLogin from the answer to the request of the outlet images
LfImagesSettle ==
  /\ engine = "login" /\ lf.request = "images"
  /\ \E o \in Outcomes(PreloadLists) :
       lf' = LfCommit(lf,
               IF o.kind = "neterr" \/ ~o.ok \/ ~o.parses \/ Len(MediaOf(o)) = 0
               THEN \* the inner catch, or no images: setStatus("success") and
                    \* setTimeout(() => router.replace(...), 5000)
                    [lf EXCEPT !.status = "success", !.navTimers = @ + 1,
                               !.navs = @ + 1, !.request = "none"]
               ELSE [lf EXCEPT !.imagesToPreload = MediaOf(o),
                               !.status = "preloading_images", !.loading = TRUE,
                               !.preloadingProgress = 0, !.request = "none"])
  /\ UNCHANGED <<engine, lastSettle, carVars, mqVars, lgVars, oiVars, hbVars, urlVars,
                 dv, sf>>

\* a prefetch of the preloader settles
PreSettle ==
  /\ engine = "login"
  /\ \E k \in 1..Len(lf.runs) : \E i \in lf.runs[k].pending : \E resolved \in BOOLEAN :
       lf' = LfCommit(lf, PrefetchSettled(lf, k, i, resolved))
  /\ UNCHANGED <<engine, lastSettle, carVars, mqVars, lgVars, oiVars, hbVars, urlVars,
                 dv, sf>>

\* a navigation timer fires: router.replace to the media screen
LfNavigate ==
  /\ engine = "login" /\ lf.navTimers > 0
  /\ lf' = LfCommit(lf, [lf EXCEPT !.navTimers = @ - 1, !.lifecycle = "left"])
  /\ UNCHANGED <<engine, lastSettle, carVars, mqVars, lgVars, oiVars, hbVars, urlVars,
                 dv, sf>>

\* onRetry of the error overlay: setErrorVisible(false)
LfDismissError ==
  /\ engine = "login" /\ lf.lifecycle = "mounted" /\ lf.errorVisible
  /\ lf' = LfCommit(lf, [lf EXCEPT !.errorVisible = FALSE])
  /\ UNCHANGED <<engine, lastSettle, carVars, mqVars, lgVars, oiVars, hbVars, urlVars,
                 dv, sf>>

LfNext ==
  \/ LfType \/ LfPressLogin \/ LfValidateSettle \/ LfImagesSettle \/ PreSettle
  \/ LfNavigate \/ LfDismissError

(***************************************************************************)
(* The media screen that validates its device before it shows media        *)
(* (MediaScreen of app/styling/OutletLoginStyles.ts).  outletId is a       *)
(* parameter of the route; both effects depend on it.  The responses to    *)
(* the heartbeats are only logged and are left out.                        *)
(***************************************************************************)
DeviceIds == {"7", "8"}

\* the answers to /validate_device: a failure (transport, body, status) or
\* a body with can_access_media
DeviceOutcomes ==
  {[ok |-> FALSE, can_access_media |-> FALSE]}
  \cup {[ok |-> TRUE, can_access_media |-> c] : c \in BOOLEAN}

DvInit ==
  [lifecycle |-> "init", outletId |-> "7",
   deviceValidation |-> [set |-> FALSE, can_access_media |-> FALSE],
   loading |-> TRUE, error |-> FALSE,
   inflight |-> {},              \* the devices whose validation has not settled
   interval |-> [armed |-> FALSE, device_id |-> "7"],
   hbSent |-> 0,                 \* history: heartbeats sent
   hbDevice |-> "7",             \* history: the device_id of the last heartbeat
   latest |-> [d \in DeviceIds |-> "none"]]   \* history: the last answer per device

\* the heartbeat effect (deps [deviceValidation, outletId]): its cleanup,
\* then its body
DvHeartbeatEffect(s) ==
  IF s.deviceValidation.set /\ s.deviceValidation.can_access_media
  THEN [s EXCEPT !.interval = [armed |-> TRUE, device_id |-> s.outletId],
                 !.hbSent = @ + 1, !.hbDevice = s.outletId]
  ELSE [s EXCEPT !.interval.armed = FALSE]

\* the validation effect (deps [outletId]): validateDevice up to its await
DvValidateEffect(s) == [s EXCEPT !.inflight = @ \cup {s.outletId}]

\* the screen is mounted
DvMount ==
  /\ engine = "device" /\ dv.lifecycle = "init"
  /\ dv' = DvHeartbeatEffect(DvValidateEffect([dv EXCEPT !.lifecycle = "mounted"]))
  /\ UNCHANGED <<engine, lastSettle, carVars, mqVars, lgVars, oiVars, hbVars, urlVars,
                 lf, sf>>

\* the route's outletId parameter changes
DvSetOutletId ==
  /\ engine = "device" /\ dv.lifecycle = "mounted" /\ dv.hbSent < MaxSent
  /\ \E d \in DeviceIds \ {dv.outletId} :
       dv' = DvHeartbeatEffect(DvValidateEffect([dv EXCEPT !.outletId = d]))
  /\ UNCHANGED <<engine, lastSettle, carVars, mqVars, lgVars, oiVars, hbVars, urlVars,
                 lf, sf>>

\* validateDevice from the answer on
DvValidateSettle ==
  /\ engine = "device" /\ dv.hbSent < MaxSent
  /\ \E d \in dv.inflight : \E o \in DeviceOutcomes :
       LET s == [dv EXCEPT !.inflight = @ \ {d},
                           !.latest[d] = IF ~o.ok THEN "failed"
                                         ELSE IF o.can_access_media THEN "allowed"
                                         ELSE "denied"]
       IN dv' = IF dv.lifecycle # "mounted" THEN s
                ELSE IF ~o.ok THEN [s EXCEPT !.error = TRUE, !.loading = FALSE]
                ELSE DvHeartbeatEffect(
                       [s EXCEPT !.loading = FALSE,
                                 !.deviceValidation =
                                    [set |-> TRUE,
                                     can_access_media |-> o.can_access_media]])
  /\ UNCHANGED <<engine, lastSettle, carVars, mqVars, lgVars, oiVars, hbVars, urlVars,
                 lf, sf>>

\* the interval fires: sendHeartbeat of the effect run that armed it
DvIntervalFire ==
  /\ engine = "device" /\ dv.interval.armed /\ dv.hbSent < MaxSent
  /\ dv' = [dv EXCEPT !.hbSent = @ + 1, !.hbDevice = dv.interval.device_id]
  /\ UNCHANGED <<engine, lastSettle, carVars, mqVars, lgVars, oiVars, hbVars, urlVars,
                 lf, sf>>

\* the screen is unmounted: the cleanup of the heartbeat effect
DvUnmount ==
  /\ engine = "device" /\ dv.lifecycle = "mounted"
  /\ dv' = [dv EXCEPT !.lifecycle = "unmounted", !.interval.armed = FALSE]
  /\ UNCHANGED <<engine, lastSettle, carVars, mqVars, lgVars, oiVars, hbVars, urlVars,
                 lf, sf>>

DvNext == DvMount \/ DvSetOutletId \/ DvValidateSettle \/ DvIntervalFire \/ DvUnmount

(***************************************************************************)
(* The system login form (components/login_forms/SystemLoginForm.tsx)      *)
(* opened without an outletId parameter: the debounced search that shows   *)
(* the name of the outlet whose ID is in the field.                        *)
(***************************************************************************)
\* data.outlet_name of the outlet with this ID
NameOf(id) == <<"N">> \o id

SfInit ==
  [outletIdState |-> <<>>,
   outletNameDisplay |-> <<"null">>, outletSearching |-> FALSE,
   timer |-> [armed |-> FALSE, trimmed |-> <<>>],   \* the pending setTimeout
   inflight |-> {}]            \* the IDs whose lookup has not settled

\* onChangeText={setOutletIdState}: the cleanup of the search effect
\* (clearTimeout), then its body
SfType ==
  /\ engine = "syslogin"
  /\ \E id \in OutletIds \ {sf.outletIdState} :
       sf' = IF trim(id) = <<>>
             THEN [sf EXCEPT !.outletIdState = id, !.timer.armed = FALSE,
                             !.outletNameDisplay = <<"null">>]
             ELSE [sf EXCEPT !.outletIdState = id,
                             !.timer = [armed |-> TRUE, trimmed |-> trim(id)]]
  /\ UNCHANGED <<engine, lastSettle, carVars, mqVars, lgVars, oiVars, hbVars, urlVars,
                 lf, dv>>

\* the debounce timer fires: the callback up to its await
SfTimerFire ==
  /\ engine = "syslogin" /\ sf.timer.armed
  /\ sf' = [sf EXCEPT !.timer.armed = FALSE, !.outletSearching = TRUE,
                      !.inflight = @ \cup {sf.timer.trimmed}]
  /\ UNCHANGED <<engine, lastSettle, carVars, mqVars, lgVars, oiVars, hbVars, urlVars,
                 lf, dv>>

\* the callback from the answer to /validate_outlet on: a failure of the
\* fetch or of json(), an ID that is not valid (or a status that is not ok),
\* a valid ID with or without a name
SfLookupSettle ==
  /\ engine = "syslogin"
  /\ \E id \in sf.inflight : \E o \in {"failed", "invalid", "named", "unnamed"} :
       sf' = [sf EXCEPT !.inflight = @ \ {id},
                        !.outletSearching = FALSE,
                        !.outletNameDisplay =
                           IF o = "failed" THEN <<"No outlets">>
                           ELSE IF o = "named" THEN NameOf(id)
                           ELSE IF o = "unnamed" THEN <<"-">>
                           ELSE @]
  /\ UNCHANGED <<engine, lastSettle, carVars, mqVars, lgVars, oiVars, hbVars, urlVars,
                 lf, dv>>

SfNext == SfType \/ SfTimerFire \/ SfLookupSettle

Init ==
  /\ engine \in {"carousel", "marquee", "legacy", "outlet", "heartbeat", "url",
                 "login", "device", "syslogin"}
  /\ lastSettle = "none"
  /\ IsCar(CarInit)
  /\ IsMq(MqInit)
  /\ IsLg(LgInit)
  /\ IsOi(OiInit)
  /\ IsHb(HbInit) /\ hbNow = 0
  /\ urlPath \in (IF engine = "url" THEN ImagePaths ELSE {NoPath})
  /\ urlBustCache \in (IF engine = "url" THEN BOOLEAN ELSE {FALSE})
  /\ urlNow = 0
  /\ urlCalls = <<>>
  /\ lf \in {LfInit(v) : v \in (IF engine = "login" THEN {"ref", "local"} ELSE {"ref"})}
  /\ dv = DvInit
  /\ sf = SfInit

Next == CarNext \/ MqNext \/ LgNext \/ OiNext \/ HbNext \/ UrlNext \/ LfNext \/ DvNext
          \/ SfNext

Spec == Init /\ [][Next]_vars

(***************************************************************************)
(* The carousel left alone on a screen that stays mounted: the parent     *)
(* keeps the endpoint and the user does not retry.  The platform          *)
(* guarantees that a timer that is due runs, that an animation that was    *)
(* started ends, that a fetch settles and that time passes.                *)
(***************************************************************************)
CarouselInit == Init /\ engine = "carousel"

CarouselNext ==
  \/ CarMount \/ CarFetchSettle \/ CarTimeout \/ CarInterval \/ CarFadeEnd \/ CarTick

CarouselSpec ==
  /\ CarouselInit /\ [][CarouselNext]_vars
  /\ WF_vars(CarTimeout) /\ WF_vars(CarInterval) /\ WF_vars(CarFadeEnd)
  /\ WF_vars(CarFetchSettle) /\ WF_vars(CarTick)

(***************************************************************************)
(* The login form on its own.  The platform guarantees that a request and  *)
(* a prefetch settle and that a timer that was set fires; nothing makes    *)
(* the user type, press or dismiss.                                        *)
(***************************************************************************)
LoginInit == Init /\ engine = "login"

LoginSpec ==
  /\ LoginInit /\ [][LfNext]_vars
  /\ WF_vars(LfValidateSettle) /\ WF_vars(LfImagesSettle)
  /\ WF_vars(PreSettle) /\ WF_vars(LfNavigate)

(***************************************************************************)
(* Properties.                                                             *)
(***************************************************************************)
\* the requests of a set that have not been aborted
Live(reqs) == {r \in reqs : ~r.aborted}

\* what the carousel shows: an item, or no item
Displayed ==
  IF lifecycle = "mounted" /\ currentIndex < Len(mediaList)
  THEN [shown |-> TRUE, item |-> mediaList[currentIndex + 1]]
  ELSE [shown |-> FALSE, item |-> [image |-> NoPath]]

\* this step is the continuation of request r, whose fetch settled with o
CarSettles(r, o) ==
  /\ engine = "carousel"
  /\ LET res == FetchMediaListResume(Car, r, o)
     IN SetCar(Commit(Car, res.c, res.replaced, FALSE)) /\ lastSettle' = res.how

MqSettles(r, o) ==
  /\ engine = "marquee"
  /\ LET res == FetchOutletImagesResume(Mq, r, o)
     IN SetMq(MqCommit(Mq, res.c, res.replaced, FALSE)) /\ lastSettle' = res.how

\* this step starts a fade-out (the animation advanceOnce starts)
CarStartsAdvance ==
  /\ fadeAnim' # fadeAnim
  /\ fadeAnim'.running /\ fadeAnim'.onEnd = "swap" /\ fadeAnim'.left = FadeTicks

LgStartsAdvance ==
  /\ lgFadeAnim' # lgFadeAnim
  /\ lgFadeAnim'.running /\ lgFadeAnim'.onEnd = "swap"
  /\ lgFadeAnim'.left = LegacyFadeTicks

\* C1: in the carousel and in the marquee, a refresh issued while another is
\* in flight supersedes it: at most one request of an engine is not aborted,
\* it is the one issued last, and the continuation of an aborted request
\* never changes the item list, whenever it arrives.
C1_OnlyTheLatestIsLive ==
  /\ Cardinality(Live(inflight)) <= 1
  /\ \A r \in Live(inflight) : r.id = abortControllerRef
  /\ Cardinality(Live(mqInflight)) <= 1
  /\ \A r \in Live(mqInflight) : r.id = mqAbortControllerRef

\* C1: the statement above, for every state and every step
C1_SupersededNeverApplied ==
  /\ []C1_OnlyTheLatestIsLive
  /\ [][/\ \A r \in inflight :
             (r.aborted /\ r \notin inflight')
               => (mediaList' = mediaList /\ currentIndex' = currentIndex)
        /\ \A r \in mqInflight :
             (r.aborted /\ r \notin mqInflight') => images' = images]_vars

\* C1, its case: the superseded request of the carousel was the last to
\* arrive, after the refresh that superseded it, and a list is held.
C1_SupersededArrivedLast ==
  /\ engine = "carousel" /\ lifecycle = "mounted"
  /\ lastSettle = "aborted" /\ inflight = {}
  /\ Len(mediaList) > 0

\* C2: carousel: whenever mediaList is non-empty, currentIndex is an index
\* of it.
C2_IndexInRange ==
  Len(mediaList) > 0 => (0 <= currentIndex /\ currentIndex < Len(mediaList))

\* C3: carousel: a refresh that fails (the fetch rejects, or the body does
\* not parse) while a non-empty list is held leaves mediaList and
\* currentIndex as they are, leaves errorVisible false and leaves the
\* displayed item displayed.
C3_FailureAbsorbed ==
  [][(engine = "carousel" /\ Len(mediaList) > 0 /\ lastSettle' = "failed")
       => \A r \in inflight : \A o \in Outcomes(MediaLists) :
            (/\ ~r.aborted
             /\ o.kind = "neterr" \/ ~o.parses
             /\ CarSettles(r, o))
              => /\ mediaList' = mediaList
                 /\ currentIndex' = currentIndex
                 /\ ~errorVisible'
                 /\ Displayed' = Displayed]_vars

\* C3, its case: the last refresh failed while the list on display was held.
C3_FailedWhileHeld ==
  /\ engine = "carousel" /\ lifecycle = "mounted"
  /\ lastSettle = "failed"
  /\ Len(mediaList) > 0 /\ Displayed.shown /\ ~errorVisible

\* C4: carousel: a successful response whose media list is empty or missing
\* does not replace a non-empty list that is held.
C4_EmptyDoesNotClear ==
  [][\A r \in inflight : \A o \in Outcomes(MediaLists) :
       (/\ ~r.aborted
        /\ o.kind = "resp" /\ o.ok /\ o.parses /\ Len(MediaOf(o)) = 0
        /\ Len(mediaList) > 0
        /\ CarSettles(r, o))
         => mediaList' = mediaList]_vars

\* C5: the body of a response whose status is not 2xx is never applied to
\* the item list, in the carousel and in the marquee.
C5_NonOkNeverApplied ==
  [][/\ \A r \in inflight : \A o \in Outcomes(MediaLists) :
          (~r.aborted /\ o.kind = "resp" /\ ~o.ok /\ CarSettles(r, o))
            => mediaList' = mediaList
     /\ \A r \in mqInflight : \A o \in Outcomes(OutletLists) :
          (~r.aborted /\ o.kind = "resp" /\ ~o.ok /\ MqSettles(r, o))
            => images' = images]_vars

\* C6: once a component is unmounted, no timer or interval of it is pending,
\* every animation of it has been stopped, and no continuation changes its
\* state.
C6_TornDown ==
  /\ lifecycle = "unmounted" => (timers = {} /\ ~fadeAnim.running)
  /\ mqLifecycle = "unmounted" => ~scrollX.running

\* C6: the statement above, for every state and every step after the
\* unmount
C6_NothingAfterTeardown ==
  /\ []C6_TornDown
  /\ [][/\ lifecycle = "unmounted"
             => UNCHANGED <<mediaList, currentIndex, loading, errorVisible, fadeAnim>>
        /\ mqLifecycle = "unmounted"
             => UNCHANGED <<images, mqLoading, scrollX>>]_vars

\* C7: carousel: during a transition, while the opacity is above 0, the
\* displayed item does not change.
C7_SwapOnlyAtZero ==
  [][(fadeAnim.running /\ fadeAnim.value > 0 /\ Displayed.shown /\ Displayed'.shown)
       => Displayed' = Displayed]_vars

\* C8: since the list was last replaced, no engine has issued a URL to
\* Image.prefetch more than once.
C8_PrefetchedOnce ==
  \A u \in Urls : prefetched[u] # "again" /\ mqPrefetched[u] # "again"

\* C9: carousel: while the mounted component holds no item, either a fetch
\* is in flight or the retry affordance is on the screen, so that a further
\* fetch can bring the items.
C9_CanFetchAgain ==
  (engine = "carousel" /\ lifecycle = "mounted" /\ Len(mediaList) = 0)
    => (Live(inflight) # {} \/ RetryVisible)

\* C10: no carousel starts a transition while a transition of it (fade-out
\* or fade-in) is in progress.
C10_OneTransition ==
  [][/\ CarStartsAdvance => ~fadeAnim.running
     /\ LgStartsAdvance => ~lgFadeAnim.running]_vars

\* C11: marquee: while the component is mounted and holds a non-empty list,
\* the scroll loop is running, or a fetch is in flight whose result can
\* start it again: the loop never stops for good.
C11_LoopNeverStops ==
  (engine = "marquee" /\ mqLifecycle = "mounted" /\ Len(images) > 0 /\ mqInflight = {})
    => scrollX.running

\* C12: marquee: the distance of one pass of the loop is K times the pitch
\* at which the K items are laid out in the strip.
C12_LoopWidthIsLayoutWidth ==
  (engine = "marquee" /\ scrollX.running)
    => 0 - scrollX.toValue = Len(images) * itemPitch

\* C13: marquee: no failure of a fetch escapes fetchOutletImages: the promise
\* it returns is never rejected (a failure while no items are held ends in
\* the textual empty state, with nothing thrown).
C13_NoErrorEscapes == ~oiEscaped

\* C14: marquee: an item in the failed-image set can leave it again through
\* a load-start of that item, without a data refresh: in every state the
\* image element of each failed item, the only source of its load-start
\* events, is in the tree.
C14_FailedItemCanRecover ==
  (engine = "marquee" /\ mqLifecycle = "mounted" /\ ~mqLoading)
    => \A i \in 1..Len(images) :
         (imageId(images, i) \in imageErrors /\ images[i].image # NoPath)
           => ImageRendered(Mq, i)

\* marquee: an identity leaves the failed-image set only in a step that
\* applies a fetched list
FailedClearedOnlyByRefresh ==
  [][(engine = "marquee" /\ ~(imageErrors \subseteq imageErrors'))
       => (lastSettle' = "applied"
           /\ \E r \in mqInflight : \E o \in Outcomes(OutletLists) : MqSettles(r, o))]_vars

\* C15: carousel: errorVisible is true only while the item list is empty.
C15_ErrorOnlyWhenEmpty ==
  (engine = "carousel" /\ errorVisible) => Len(mediaList) = 0

\* C15, its case: a fetch failed with no list held and the error is shown.
C15_ErrorShown ==
  /\ engine = "carousel" /\ lifecycle = "mounted"
  /\ lastSettle = "failed" /\ errorVisible /\ Len(mediaList) = 0

\* C16: heartbeat: one heartbeat is sent at the start, then one for every
\* interval that has elapsed while the screen is mounted, and none after
\* the teardown.
C16_OnePerInterval ==
  /\ [](engine = "heartbeat" =>
         /\ hbLifecycle = "init" => hbSent = 0
         /\ hbLifecycle = "mounted" =>
              hbSent = 1 + (hbNow \div HbTicks(heartbeatInterval))
                         - (IF hbInterval.left = 0 THEN 1 ELSE 0))
  /\ [][hbLifecycle = "unmounted" => hbSent' = hbSent]_vars

\* C16, its case: two heartbeats were sent, the screen was torn down, and
\* the time of the third has passed.
C16_TornDownAfterTwo ==
  /\ engine = "heartbeat" /\ hbLifecycle = "unmounted"
  /\ hbSent = 2 /\ hbNow > 2 * HbTicks(heartbeatInterval)

\* C17: heartbeat: the interval between two scheduled heartbeats is 30 s.
C17_Every30Seconds ==
  (engine = "heartbeat" /\ hbInterval.armed) => hbInterval.period = 30000

\* C18: carousel: while the screen stays mounted, after a refresh has
\* completed another refresh of the media list is eventually issued.
C18_RefreshesAgain ==
  (/\ engine = "carousel" /\ lifecycle = "mounted"
   /\ lastSettle = "applied" /\ Len(mediaList) >= 2 /\ inflight = {})
    ~> (inflight # {} \/ lifecycle # "mounted")

\* the string without its last token (the timestamp of ?t=<timestamp>)
WithoutTimestamp(u) == IF u = NoPath THEN u ELSE SubSeq(u, 1, Len(u) - 1)

\* C19: getImageUrl: two calls with the same path and bustCache = false
\* return identical strings at any two times; with bustCache = true the
\* two strings are equal except for the value of the t=<timestamp> appended.
C19_SameUrlTwice ==
  (engine = "url" /\ Len(urlCalls) = 2)
    => IF urlBustCache
       THEN WithoutTimestamp(urlCalls[1]) = WithoutTimestamp(urlCalls[2])
       ELSE urlCalls[1] = urlCalls[2]

\* C19, its case: a path was resolved without cache busting at two
\* different times.
C19_CalledAtTwoTimes ==
  /\ engine = "url" /\ Len(urlCalls) = 2 /\ ~urlBustCache
  /\ urlPath = RelPath /\ urlNow > 0
  /\ urlCalls[1] = SERVER_URL \o RelPath

\* a reference that starts with a scheme: letters, then a colon
Letters ==
  {"a","b","c","d","e","f","g","h","i","j","k","l","m",
   "n","o","p","q","r","s","t","u","v","w","x","y","z"}
HasScheme(path) ==
  \E i \in 2..Len(path) : path[i] = ":" /\ \A j \in 1..(i - 1) : path[j] \in Letters

\* C20: getImageUrl returns null for an absent path, an absolute reference
\* (one that starts with a scheme) unchanged, and SERVER_URL followed by the
\* path for every other path.
C20_AbsoluteKeptRelativePrefixed ==
  (engine = "url" /\ ~urlBustCache)
    => \A k \in 1..Len(urlCalls) :
         urlCalls[k] = IF urlPath = NoPath THEN NoPath
                       ELSE IF HasScheme(urlPath) THEN urlPath
                       ELSE SERVER_URL \o urlPath

\* C21: carousel: in the state a successful refresh leaves, currentIndex is
\* 0 and nothing started against the previous list is left that will change
\* it: no fade-out of an earlier advance is pending whose callback sets
\* another index.
C21_IndexStaysZero ==
  [][(/\ engine = "carousel" /\ lastSettle' = "applied" /\ fadeAnim' = fadeAnim
      /\ \E r \in inflight : \E o \in Outcomes(MediaLists) : CarSettles(r, o))
       => /\ currentIndex' = 0
          /\ ~(fadeAnim'.running /\ fadeAnim'.onEnd = "swap"
                /\ fadeAnim'.nextIndex # currentIndex')]_vars

\* C22: at any time at most one timer (timeout or interval) that will call
\* advanceOnce is pending per carousel, and none while its list is empty.
C22_OneSchedule ==
  /\ Cardinality(timers) <= 1
  /\ Len(mediaList) = 0 => timers = {}
  /\ Cardinality(lgTimers) <= 1
  /\ Len(lgMediaList) = 0 => lgTimers = {}

\* C23: the completion of a superseded (aborted) request changes no state of
\* its component: not the item list, not errorVisible, not the loading flag.
C23_AbortedChangesNothing ==
  [][/\ \A r \in inflight :
          (r.aborted /\ r \notin inflight')
            => UNCHANGED <<mediaList, currentIndex, errorVisible, loading>>
     /\ \A r \in mqInflight :
          (r.aborted /\ r \notin mqInflight') => UNCHANGED <<images, mqLoading>>]_vars

\* C24: carousel: the prefetch on list load warms the first
\* min(PREFETCH_BUFFER + 1, n) items: while a list is held, the URL of each
\* of them has been issued to Image.prefetch since the list was loaded.
C24_FirstItemsWarmed ==
  (engine = "carousel" /\ lifecycle = "mounted" /\ Len(mediaList) > 0)
    => \A i \in 1..Min(PREFETCH_BUFFER + 1, Len(mediaList)) :
         LET url == getImageUrl(mediaList[i].image, FALSE, 0)
         IN url # NoPath => prefetched[url] # "never"

\* C25: marquee: while a loaded list of n items is held, the resolvable URL
\* of every one of the n items has been issued to Image.prefetch since the
\* list was loaded.
C25_AllItemsWarmed ==
  (engine = "marquee" /\ mqLifecycle = "mounted" /\ Len(images) > 0)
    => \A i \in 1..Len(images) :
         LET url == getImageUrl(images[i].image, FALSE, 0)
         IN url # NoPath => mqPrefetched[url] # "never"

\* C26: marquee: the scroll animation that is running (there is one
\* Animated.Value, so at most one) was started for the list that is held:
\* its distance is the loop width of that list.
C26_ScrollMatchesList ==
  (engine = "marquee" /\ scrollX.running)
    => /\ scrollX.closure = images
       /\ 0 - scrollX.toValue = Len(images) * (ITEM_W + 8)

\* C26, its case: the strip scrolls over a list that replaced a shorter
\* one while that one was scrolling.
C26_ScrollingReplacement ==
  /\ engine = "marquee" /\ mqLifecycle = "mounted" /\ lastSettle = "applied"
  /\ mqInflight = {}
  /\ scrollX.running /\ scrollX.value < 0 /\ Len(images) = MaxLen

\* C27: marquee: a mount issues one fetch and the mounted component issues
\* no other by itself: in a step in which a fetch settles, the strip scrolls
\* or an image reports (the number of unsettled requests does not grow), no
\* new request appears.
C27_OneFetchPerMount ==
  [][(/\ engine = "marquee" /\ mqLifecycle = "mounted" /\ mqLifecycle' = "mounted"
      /\ Cardinality(mqInflight') <= Cardinality(mqInflight))
       => Live(mqInflight') \subseteq Live(mqInflight)]_vars

\* C28: heartbeat: a heartbeat that fails triggers no send and leaves the
\* schedule as it is: after a failure the number of heartbeats sent is still
\* 1 plus the number of intervals elapsed, and the timer is still armed.
C28_FailureKeepsSchedule ==
  /\ []((engine = "heartbeat" /\ hbLifecycle = "mounted" /\ lastSettle = "failed")
         => /\ hbInterval.armed /\ hbInterval.period = heartbeatInterval
            /\ hbSent + (IF hbInterval.left = 0 THEN 1 ELSE 0)
                 = 1 + (hbNow \div HbTicks(heartbeatInterval)))
  /\ [][(engine = "heartbeat" /\ hbUnsettled' < hbUnsettled)
         => (hbSent' = hbSent /\ hbInterval' = hbInterval)]_vars

\* C28, its case: three heartbeats were sent on schedule and all have
\* settled, the last of them with a failure.
C28_FailedOnSchedule ==
  /\ engine = "heartbeat" /\ hbLifecycle = "mounted" /\ lastSettle = "failed"
  /\ hbSent = 3 /\ hbUnsettled = 0

\* C29: carousel left alone with a list of n >= 2 items and no refresh
\* pending: an advance that starts goes to the index after the current one,
\* cyclically, the end of its fade-out makes that index current, and every
\* index of the list is current again and again (at infinitely many moments
\* a refresh is pending, or the index is current).
C29_CyclicOrder ==
  /\ [][/\ (CarStartsAdvance /\ inflight = {})
            => fadeAnim'.nextIndex = (currentIndex + 1) % Len(mediaList)
        /\ (fadeAnim.running /\ fadeAnim.onEnd = "swap" /\ ~fadeAnim'.running
            /\ inflight = {})
            => currentIndex' = fadeAnim.nextIndex]_vars
  /\ \A i \in 0..(MaxLen - 1) :
       []<>((inflight = {} /\ Len(mediaList) >= 2 /\ i < Len(mediaList))
              => currentIndex = i)

\* C29, its case: the last item of a list of MaxLen items is on display and
\* the advance to the first item has started.
C29_WrapsAround ==
  /\ engine = "carousel" /\ lifecycle = "mounted" /\ inflight = {}
  /\ Len(mediaList) = MaxLen /\ currentIndex = MaxLen - 1
  /\ fadeAnim.running /\ fadeAnim.onEnd = "swap" /\ fadeAnim.nextIndex = 0

\* C30: no mounted carousel is left with its card at an opacity below 1 and
\* no animation running on it: a fade-out is always followed by its fade-in.
C30_NeverStuckFaded ==
  /\ (engine = "carousel" /\ lifecycle = "mounted" /\ ~fadeAnim.running)
       => fadeAnim.value = FadeTicks
  /\ (engine = "legacy" /\ lgLifecycle = "mounted" /\ ~lgFadeAnim.running)
       => lgFadeAnim.value = LegacyFadeTicks

\* C30, its case: an advance has run to its end: the second item is on
\* display at full opacity and no animation is running.
C30_AdvanceCompleted ==
  /\ engine = "carousel" /\ lifecycle = "mounted" /\ inflight = {}
  /\ Len(mediaList) >= 2 /\ currentIndex = 1
  /\ ~fadeAnim.running /\ fadeAnim.value = FadeTicks


\* C31: carousel: left alone (no retry, no change of the endpoint), a mounted
\* carousel issues finitely many fetches: from some point on no fetch is in
\* flight any more, whatever the server answers.
C31_FetchingStops == <>[](engine = "carousel" => inflight = {})


\* C32: marquee: while a fetch of the mounted component that has not been
\* superseded is in flight, the loading flag is true.
C32_LoadingWhileFetching ==
  (engine = "marquee" /\ mqLifecycle = "mounted" /\ Live(mqInflight) # {})
    => mqLoading


\* C33: marquee: while the mounted component holds a non-empty item list it
\* displays the strip, also while a refresh is in flight: never the loading
\* text or the empty text.
C33_StripWhileHeld ==
  (engine = "marquee" /\ mqLifecycle = "mounted" /\ Len(images) > 0)
    => MqRenders(Mq) = "strip"


\* C34: preloader: the login flow does not stay in the preloading state for
\* ever: whatever the images, once the prefetches have settled
\* onAllImagesLoaded is called and the status moves on.
C34_PreloadingEnds == []<>(lf.status # "preloading_images")


\* C35: preloader: a mounted preloader calls onAllImagesLoaded at most once,
\* and not before the promise of every item of its list has completed, also
\* when the preload effect has run again while prefetches were pending.
C35_CalledOnceAfterAll ==
  engine = "login" =>
    /\ lf.calls <= 1
    /\ lf.calls >= 1 => lf.processed = 1..Len(lf.imagesToPreload)


\* C36: login form: the in-progress guard is released when an attempt ends
\* with an invalid outlet or a connection error: the mounted form is never
\* left with loading = true while no request, no preload and no navigation
\* is pending.
C36_GuardReleased ==
  (engine = "login" /\ lf.lifecycle = "mounted" /\ lf.loading)
    => (lf.request # "none" \/ lf.preMounted \/ lf.navTimers > 0)


\* C37: login form: a navigation to the media screen is scheduled only
\* after the validation request was answered with ok and is_valid = true,
\* and a login attempt schedules at most one.
C37_OneNavigationAfterValid ==
  engine = "login" =>
    /\ lf.navs <= 1
    /\ lf.navTimers <= lf.navs
    /\ lf.navs >= 1 => lf.validated

\* C37, its case: the preloader has called handleImagesPreloaded and the
\* navigation it scheduled is pending.
C37_NavigationPending ==
  /\ engine = "login" /\ lf.lifecycle = "mounted"
  /\ lf.calls = 1 /\ lf.navs = 1 /\ lf.navTimers = 1


\* C38: validated media screen: a heartbeat is sent only for a device whose
\* last validation answered can_access_media = true, and the heartbeat
\* interval exists only while that is so for the screen's device.
C38_HeartbeatOnlyIfValidated ==
  /\ [](engine = "device" /\ dv.interval.armed
          => dv.latest[dv.outletId] = "allowed")
  /\ [][dv'.hbSent > dv.hbSent => dv'.latest[dv'.hbDevice] = "allowed"]_vars


\* C39: system login form: once the search has come to rest (no debounce
\* timer, no lookup pending), an outlet name on display is the name of the
\* outlet whose ID is in the field: not the name of an ID entered earlier.
C39_NameOfCurrentId ==
  (/\ engine = "syslogin" /\ ~sf.timer.armed /\ sf.inflight = {}
   /\ \E id \in OutletIds : sf.outletNameDisplay = NameOf(trim(id)))
    => sf.outletNameDisplay = NameOf(trim(sf.outletIdState))

====
